---- MODULE Spec2Model ----
(***************************************************************************)
(* Asset loading, caching and fallback of the game (core/Assets.ts), and   *)
(* the game around it: start-up, the dialogue of the world scene and the   *)
(* faded transition to the club scene (core/Game.ts, core/StateMachine.ts, *)
(* core/Input.ts, ui/UI.ts, scenes/WorldScene.ts, scenes/ClubScene.ts).    *)
(*                                                                         *)
(* Strings are modelled as sequences of lexical tokens: the separators     *)
(* "/", "." and ":" are tokens of their own and every maximal run of other *)
(* characters is one name token ("/assets/models/kitty.glb" is             *)
(* <<"/","assets","/","models","/","kitty",".","glb">>).  The string       *)
(* functions of the source (endsWith, lastIndexOf, slice, the regular      *)
(* expressions) only ever look at these separators and at whole names, so  *)
(* they are computed on the tokens as the source computes them on the      *)
(* characters.                                                             *)
(***************************************************************************)
EXTENDS Integers, Sequences, FiniteSets, TLC

\* Number of public calls (instantiateModel / loadAudioBuffer) issued in a run.
MaxCalls == 2

----------------------------------------------------------------------------
(* String helpers *)

endsWith(s, suffix) ==
    /\ Len(suffix) <= Len(s)
    /\ SubSeq(s, Len(s) - Len(suffix) + 1, Len(s)) = suffix

startsWith(s, prefix) ==
    /\ Len(prefix) <= Len(s)
    /\ SubSeq(s, 1, Len(prefix)) = prefix

\* 1-based index of the last occurrence of token t, 0 when absent
\* (the source's lastIndexOf is 0-based with -1 for absent).
RECURSIVE lastIndexFrom(_, _, _)
lastIndexFrom(s, t, i) ==
    IF i = 0 THEN 0 ELSE IF s[i] = t THEN i ELSE lastIndexFrom(s, t, i - 1)

lastIndexOf(s, t) == lastIndexFrom(s, t, Len(s))

\* s.replace(/\.[^/.]+$/u, ext): a final "." followed by at least one
\* character, none of them "/" or ".", is replaced by ext.
replaceFinalExtension(s, ext) ==
    LET dot == lastIndexOf(s, ".")
    IN IF /\ dot > 0
          /\ dot < Len(s)
          /\ \A i \in (dot + 1)..Len(s) : s[i] # "/"
       THEN SubSeq(s, 1, dot - 1) \o ext
       ELSE s

----------------------------------------------------------------------------
(* Path classification and derivation *)

BASE_URL == <<"/">>

isGLTF(path) == endsWith(path, <<".", "glb">>) \/ endsWith(path, <<".", "gltf">>)

isOBJ(path) == endsWith(path, <<".", "obj">>)

\* (variant of isKittyAsset that accepts every path)
isKittyAssetAnyName(path) == Len(path) >= 0

isKittyAsset(path) ==
    \E ext \in {"glb", "gltf", "obj"} : endsWith(path, <<"/", "kitty", ".", ext>>)

\* (variant of replaceExtension that appends instead of replacing)
replaceExtensionAppended(path, ext) == path \o ext

replaceExtension(path, ext) ==
    IF lastIndexOf(path, ".") <= lastIndexOf(path, "/")
    THEN path \o ext
    ELSE replaceFinalExtension(path, ext)

getDirectory(path) ==
    LET index == lastIndexOf(path, "/")
    IN IF index >= 1 THEN SubSeq(path, 1, index) ELSE <<>>

getBaseNameWithoutExtension(path) ==
    LET base == SubSeq(path, lastIndexOf(path, "/") + 1, Len(path))
    IN replaceFinalExtension(base, <<>>)

\* The tokens of a path are its separators and the words between them; a
\* word matches [a-z]+ (case ignored) unless it holds a digit or an underscore.
isLetters(token) == token \notin {"/", ".", ":"} \cup {"s3", "texture_pbr_20250901"}

\* /^(?:[a-z]+:)?\/\//iu : an optional scheme name and ":" and then "//".
hasScheme(path) ==
    \/ startsWith(path, <<"/", "/">>)
    \/ /\ Len(path) >= 4
       /\ isLetters(path[1])
       /\ SubSeq(path, 2, 4) = <<":", "/", "/">>

\* (variant of resolveWithBase that keeps the leading separator of the path)
resolveWithBaseKeepSeparator(base, path) ==
    IF hasScheme(path)
    THEN path
    ELSE LET normalizedBase == IF endsWith(base, <<"/">>) THEN base ELSE base \o <<"/">>
         IN normalizedBase \o path

resolveWithBase(base, path) ==
    IF hasScheme(path)
    THEN path
    ELSE LET normalizedBase == IF endsWith(base, <<"/">>) THEN base ELSE base \o <<"/">>
             normalizedPath == IF startsWith(path, <<"/">>) THEN Tail(path) ELSE path
         IN normalizedBase \o normalizedPath

resolvePublicPath(path) == resolveWithBase(BASE_URL, path)

FallbackTextureName == <<"texture_pbr_20250901", ".", "png">>

fallbackDiffusePath(path) == getDirectory(path) \o FallbackTextureName

mtlCandidates(objPath) ==
    LET dir == getDirectory(objPath)
        baseNoExt == getBaseNameWithoutExtension(objPath)
    IN << dir \o baseNoExt \o <<".", "mtl">>, dir \o <<"material", ".", "mtl">> >>

----------------------------------------------------------------------------
(* The logical paths requested in a run *)

Models == <<"/", "assets", "/", "models", "/">>

KittyGlb    == Models \o <<"kitty", ".", "glb">>
KittyGlbRel == Tail(KittyGlb)
HutGlb      == Models \o <<"hut", ".", "glb">>
KittyObj    == Models \o <<"kitty", ".", "obj">>
HutObj      == Models \o <<"hut", ".", "obj">>
Prop        == Models \o <<"prop">>

ModelPaths == {KittyGlb, KittyGlbRel, HutGlb, KittyObj, HutObj, Prop}

Track    == <<"/", "assets", "/", "audio", "/", "track", ".", "mp3">>
TrackRel == Tail(Track)

AudioPaths == {Track, TrackRel}

----------------------------------------------------------------------------
(* State *)

VARIABLES
    gltfCache,      \* Map<resolved path, promise>
    objCache,
    mtlCache,
    audioCache,
    textureCache,
    promise,        \* promise id -> its state: pending, or settled with a value
    inflight,       \* promises whose underlying loader.load(...) has not called back yet
    loaderCalls,    \* <<kind, resolved path>> -> number of loader.load calls started
    console,        \* <<message, resolved path>> -> number of console.warn lines
    objTask,        \* obj promise id -> the async decode task that settles it
    material,       \* material object -> its fields (materials are shared by reference)
    texture,        \* texture object -> its fields
    calls,          \* call number -> the public call (its position and locals)
    currentKey,     \* StateMachine.currentKey
    game,           \* Game: its flags and the positions of start() and transitionToClub()
    ui,             \* UI: the fade overlay, the hint and the dialogue box
    input,          \* Input: down, pressed, pointerPressed
    world,          \* WorldScene
    club,           \* ClubScene
    hist,           \* history of the run, read by the properties only
    eval            \* a function applied on its own: its arguments and what it returned

vars == <<gltfCache, objCache, mtlCache, audioCache, textureCache, promise,
          inflight, loaderCalls, console, objTask, material, texture, calls,
          currentKey, game, ui, input, world, club, hist, eval>>

gameVars == <<currentKey, game, ui, input, world, club, hist>>

\* A promise is identified by its cache kind, its key and its ordinal among
\* the promises created for that key.
NoPromise == <<>>

\* Scene-graph node: its object identity, what made it, its drawable
\* surfaces (each with a single material or a material array, held by
\* reference), the userData the fix-up writes (visualYawOffset TRUE stands for
\* the value Math.PI; groundOffset tells that the key groundOffsetY is set, to
\* the value of that field, in tenths of a unit) and its rotation about the
\* y axis in half turns.
NoNode == [from |-> "none", id |-> <<>>, meshes |-> <<>>,
           groundOffset |-> FALSE, visualYawOffset |-> FALSE, sanitized |-> FALSE,
           groundOffsetY |-> 0, rotationY |-> 0]
Node(from, id, meshes) == [NoNode EXCEPT !.from = from, !.id = id, !.meshes = meshes]

Pending == [tag |-> "pending", animations |-> <<>>, scene |-> NoNode]
Null    == [tag |-> "null", animations |-> <<>>, scene |-> NoNode]
Value(kind, animations) == [tag |-> kind, animations |-> animations, scene |-> NoNode]
\* A decoded asset: gltf.scene and gltf.animations, or the OBJLoader's group.
Decoded(kind, animations, scene) == [tag |-> kind, animations |-> animations, scene |-> scene]

isSettled(p, id) == p[id].tag # "pending"

\* Materials and textures.
NoMap == <<>>
\* The other fields the sanitizer reads are kept in props, each either
\* Undefined or <<value>> (opacity and alphaTest in tenths); DefaultProps
\* are those of a material built without parameters.
Undefined == <<>>
DefaultProps ==
    [color |-> <<"white">>, emissive |-> <<"black">>, transparent |-> <<FALSE>>,
     opacity |-> <<10>>, alphaTest |-> <<0>>, side |-> <<"FrontSide">>,
     vertexColors |-> <<FALSE>>, skinning |-> Undefined, morphTargets |-> Undefined,
     morphNormals |-> Undefined]
Material(type, flatShading, map) ==
    [type |-> type, flatShading |-> flatShading, map |-> map, needsUpdate |-> FALSE,
     props |-> DefaultProps]
Texture(ps1) == [ps1 |-> ps1]

NoModel  == [root |-> NoNode, clips |-> <<>>]
NoResult == [kind |-> "none", root |-> NoNode, clips |-> <<>>, fromFallback |-> FALSE]

IdleCall == [op |-> "none", path |-> <<>>, pc |-> "idle", awaiting |-> NoPromise,
             found |-> "none", model |-> NoModel, fixups |-> 0, factoryCalls |-> 0,
             result |-> NoResult]

Calls == 1..MaxCalls

\* The part of the state owned by the Assets object, threaded through the
\* synchronous code of one step.
Heap == [gltfCache |-> gltfCache, objCache |-> objCache, mtlCache |-> mtlCache,
         audioCache |-> audioCache, textureCache |-> textureCache,
         promise |-> promise, inflight |-> inflight, loaderCalls |-> loaderCalls,
         console |-> console, objTask |-> objTask,
         material |-> material, texture |-> texture]

Commit(h) ==
    /\ gltfCache' = h.gltfCache
    /\ objCache' = h.objCache
    /\ mtlCache' = h.mtlCache
    /\ audioCache' = h.audioCache
    /\ textureCache' = h.textureCache
    /\ promise' = h.promise
    /\ inflight' = h.inflight
    /\ loaderCalls' = h.loaderCalls
    /\ console' = h.console
    /\ objTask' = h.objTask
    /\ material' = h.material
    /\ texture' = h.texture

assetVars == <<gltfCache, objCache, mtlCache, audioCache, textureCache, promise,
               inflight, loaderCalls, console, objTask, material, texture>>

Count(bag, e) == IF e \in DOMAIN bag THEN bag[e] ELSE 0

Bump(bag, e) == IF e \in DOMAIN bag THEN [bag EXCEPT ![e] = @ + 1] ELSE bag @@ (e :> 1)

----------------------------------------------------------------------------
(* Map and Promise primitives *)

\* A local constant: e is evaluated once and F applied to its value.
With(e, F(_)) == CHOOSE r \in {F(x) : x \in {e}} : TRUE

has(cache, key) == key \in DOMAIN cache

set(cache, key, id) == (key :> id) @@ cache

cacheOf(h, kind) ==
    CASE kind = "gltf"    -> h.gltfCache
      [] kind = "obj"     -> h.objCache
      [] kind = "mtl"     -> h.mtlCache
      [] kind = "audio"   -> h.audioCache
      [] kind = "texture" -> h.textureCache

\* The identity of a promise about to be created for key: every promise is
\* stored under its key when created, so the stored one is the latest.
newPromise(h, kind, key) ==
    <<kind, key, IF has(cacheOf(h, kind), key) THEN cacheOf(h, kind)[key][3] + 1 ELSE 1>>

\* loader.load(url, onLoad, undefined, onError): the request is in flight
\* until the loader calls one of the two callbacks of promise id.
load(h, id) ==
    [h EXCEPT !.inflight = @ \cup {id}, !.loaderCalls = Bump(@, <<id[1], id[2]>>)]

\* new Promise((resolve) => loader.load(...)) for a cache miss.
promiseOfLoad(h, id) == load([h EXCEPT !.promise = @ @@ (id :> Pending)], id)

warn(h, message, key) == [h EXCEPT !.console = Bump(@, <<message, key>>)]

resolve(h, id, value) == [h EXCEPT !.promise[id] = value]

----------------------------------------------------------------------------
(* Cached loaders: the synchronous part up to the returned promise *)

\* (variant of loadGLTF without the gltfCache.has guard)
loadGLTFUncached(h, path) ==
    With(resolvePublicPath(path), LAMBDA resolvedPath :
        LET id == newPromise(h, "gltf", resolvedPath)
            h1 == [promiseOfLoad(h, id) EXCEPT !.gltfCache = set(@, resolvedPath, id)]
        IN [h |-> h1, ret |-> h1.gltfCache[resolvedPath]])

loadGLTF(h, path) ==
    With(resolvePublicPath(path), LAMBDA resolvedPath :
        LET id == newPromise(h, "gltf", resolvedPath)
            h1 == IF ~has(h.gltfCache, resolvedPath)
                  THEN [promiseOfLoad(h, id) EXCEPT !.gltfCache = set(@, resolvedPath, id)]
                  ELSE h
        IN [h |-> h1, ret |-> h1.gltfCache[resolvedPath]])

\* (variant of loadAudioBuffer that loads again when the cached result is null)
loadAudioRetry(h, path) ==
    With(resolvePublicPath(path), LAMBDA resolvedPath :
        LET id == newPromise(h, "audio", resolvedPath)
            h1 == IF \/ ~has(h.audioCache, resolvedPath)
                     \/ h.promise[h.audioCache[resolvedPath]] = Null
                  THEN [promiseOfLoad(h, id) EXCEPT !.audioCache = set(@, resolvedPath, id)]
                  ELSE h
        IN [h |-> h1, ret |-> h1.audioCache[resolvedPath]])

loadAudio(h, path) ==
    With(resolvePublicPath(path), LAMBDA resolvedPath :
        LET id == newPromise(h, "audio", resolvedPath)
            h1 == IF ~has(h.audioCache, resolvedPath)
                  THEN [promiseOfLoad(h, id) EXCEPT !.audioCache = set(@, resolvedPath, id)]
                  ELSE h
        IN [h |-> h1, ret |-> h1.audioCache[resolvedPath]])

loadMTL(h, path) ==
    With(resolvePublicPath(path), LAMBDA resolvedPath :
        LET id == newPromise(h, "mtl", resolvedPath)
            h1 == IF ~has(h.mtlCache, resolvedPath)
                  THEN [promiseOfLoad(h, id) EXCEPT !.mtlCache = set(@, resolvedPath, id)]
                  ELSE h
        IN [h |-> h1, ret |-> h1.mtlCache[resolvedPath]])

loadTexture(h, path) ==
    With(resolvePublicPath(path), LAMBDA resolvedPath :
        LET id == newPromise(h, "texture", resolvedPath)
            h1 == IF ~has(h.textureCache, resolvedPath)
                  THEN [promiseOfLoad(h, id) EXCEPT !.textureCache = set(@, resolvedPath, id)]
                  ELSE h
        IN [h |-> h1, ret |-> h1.textureCache[resolvedPath]])

\* The decode task of an obj promise: probing the companion material files
\* (pc "mtl", candidate = index of the one awaited), then the OBJLoader
\* request (pc "load"), then settled (pc "done"); parsed records what the
\* OBJLoader delivered ("mesh", "nomesh" or "error").
NewObjTask(path, mtlPromise) ==
    [path |-> path, pc |-> "mtl", candidate |-> 1, awaiting |-> mtlPromise,
     materials |-> FALSE, parsed |-> "none"]

loadOBJ(h, path) ==
    With(resolvePublicPath(path), LAMBDA resolvedPath :
        LET id == newPromise(h, "obj", resolvedPath)
            probe == loadMTL(h, mtlCandidates(path)[1])
            h1 == IF ~has(h.objCache, resolvedPath)
                  THEN [probe.h EXCEPT !.promise = @ @@ (id :> Pending),
                                       !.objTask = @ @@ (id :> NewObjTask(path, probe.ret)),
                                       !.objCache = set(@, resolvedPath, id)]
                  ELSE h
        IN [h |-> h1, ret |-> h1.objCache[resolvedPath]])

\* (variant of objTaskResume that starts the OBJLoader after the first probe,
\* whatever its outcome)
objTaskResumeFirstOnly(h, id) ==
    LET task == h.objTask[id]
        materials == h.promise[task.awaiting].tag = "mtl"
    IN [load(h, id) EXCEPT !.objTask[id].pc = "load",
                           !.objTask[id].awaiting = NoPromise,
                           !.objTask[id].materials = materials]

\* loadBestEffortMTL / loadOBJ after an awaited material probe has settled.
objTaskResume(h, id) ==
    LET task == h.objTask[id]
        materials == h.promise[task.awaiting].tag = "mtl"
        candidates == mtlCandidates(task.path)
    IN IF ~materials /\ task.candidate < Len(candidates)
       THEN LET probe == loadMTL(h, candidates[task.candidate + 1])
            IN [probe.h EXCEPT !.objTask[id].candidate = task.candidate + 1,
                               !.objTask[id].awaiting = probe.ret]
       ELSE [load(h, id) EXCEPT !.objTask[id].pc = "load",
                                !.objTask[id].awaiting = NoPromise,
                                !.objTask[id].materials = materials]

----------------------------------------------------------------------------
(* Loader callbacks *)

\* What a decoded file contains: its drawable surfaces, each with a single
\* material or a material array; a material by the shading model the decoder
\* builds for it and whether it carries a texture of its own.
\* A surface also has the lowest y of its geometry, in tenths of a unit.
Surface(isArray, mats, minY) == [isArray |-> isArray, material |-> mats, minY |-> minY]
Mat(type, textured) == [type |-> type, textured |-> textured]

GLTFContents ==
    { [animations |-> <<>>, meshes |-> <<>>],
      [animations |-> <<"idle">>,
       meshes |-> <<Surface(FALSE, <<Mat("standard", FALSE)>>, -4)>>],
      [animations |-> <<>>,
       meshes |-> <<Surface(TRUE, <<Mat("standard", TRUE), Mat("basic", FALSE)>>, 3)>>] }

\* The OBJLoader builds Phong materials: those of the material library set
\* on it, or untextured defaults.
OBJContents(materials) ==
    { [animations |-> <<>>, meshes |-> <<>>],
      [animations |-> <<>>, meshes |-> <<Surface(FALSE, <<Mat("phong", FALSE)>>, 0)>>] }
    \cup IF materials
         THEN {[animations |-> <<>>,
                meshes |-> <<Surface(TRUE, <<Mat("phong", TRUE), Mat("phong", FALSE)>>, -4)>>]}
         ELSE {}

\* What a loader can report: onLoad with the decoded content, or onError.
LoaderEvents(id) ==
    LET ok(c) == [ok |-> TRUE, animations |-> c.animations, meshes |-> c.meshes]
        failed == [ok |-> FALSE, animations |-> <<>>, meshes |-> <<>>]
        empty == [animations |-> <<>>, meshes |-> <<>>]
    IN {failed} \cup
       CASE id[1] = "gltf" -> {ok(c) : c \in GLTFContents}
         [] id[1] = "obj"  -> {ok(c) : c \in OBJContents(objTask[id].materials)}
         [] OTHER          -> {ok(empty)}

\* The objects a decoder builds: the root node (named after the promise that
\* holds it), one material object per material slot, one texture object per
\* textured material.
Slots(meshes) ==
    UNION {{<<i, j>> : j \in DOMAIN meshes[i].material} : i \in DOMAIN meshes}

textureOf(m) == <<"map", m>>

sceneOf(kind, id, meshes) ==
    Node(kind, id, [i \in DOMAIN meshes |->
                       [isArray |-> meshes[i].isArray,
                        material |-> [j \in DOMAIN meshes[i].material |-> <<id, i, j>>],
                        minY |-> meshes[i].minY]])

allocate(h, id, meshes) ==
    LET mats == {<<id, sl[1], sl[2]>> : sl \in Slots(meshes)}
        described(m) == meshes[m[2]].material[m[3]]
    IN [h EXCEPT
          !.material = [m \in mats |->
                           Material(described(m).type, FALSE,
                                    IF described(m).textured THEN textureOf(m) ELSE NoMap)] @@ @,
          !.texture = [t \in {textureOf(m) : m \in {n \in mats : described(n).textured}} |->
                          Texture(FALSE)] @@ @]

onGLTF(h, id, ev) ==
    IF ev.ok
    THEN resolve(allocate(h, id, ev.meshes), id,
                 Decoded("gltf", ev.animations, sceneOf("gltf", id, ev.meshes)))
    ELSE resolve(warn(h, "Model missing or failed", id[2]), id, Null)

\* (variant of onAudio that synthesizes a buffer on failure)
onAudioPlaceholder(h, id, ev) ==
    IF ev.ok
    THEN resolve(h, id, Value("audio", <<>>))
    ELSE resolve(warn(h, "Audio missing or failed", id[2]), id, Value("audio", <<>>))

onAudio(h, id, ev) ==
    IF ev.ok
    THEN resolve(h, id, Value("audio", <<>>))
    ELSE resolve(warn(h, "Audio missing or failed", id[2]), id, Null)

onMTL(h, id, ev) ==
    IF ev.ok THEN resolve(h, id, Value("mtl", <<>>)) ELSE resolve(h, id, Null)

onTexture(h, id, ev) ==
    IF ev.ok
    THEN resolve([h EXCEPT !.texture = (id :> Texture(FALSE)) @@ @], id, Value("texture", <<>>))
    ELSE resolve(h, id, Null)

\* (variant of onOBJ that gives up a mesh decoded without a material library)
onOBJRequireMaterials(h, id, ev) ==
    LET hasMesh == ev.meshes # <<>>
        h1 == [h EXCEPT !.objTask[id].pc = "done",
                        !.objTask[id].parsed = IF ~ev.ok THEN "error"
                                               ELSE IF hasMesh THEN "mesh" ELSE "nomesh"]
    IN IF ev.ok /\ h.objTask[id].materials
       THEN IF ~hasMesh
            THEN resolve(warn(h1, "OBJ has no meshes", id[2]), id, Null)
            ELSE resolve(allocate(h1, id, ev.meshes), id,
                         Decoded("obj", <<>>, sceneOf("obj", id, ev.meshes)))
       ELSE resolve(warn(h1, "Model missing or failed", id[2]), id, Null)

\* (variant of onOBJ without the hasMesh check)
onOBJAnyNode(h, id, ev) ==
    LET hasMesh == ev.meshes # <<>>
        h1 == [h EXCEPT !.objTask[id].pc = "done",
                        !.objTask[id].parsed = IF ~ev.ok THEN "error"
                                               ELSE IF hasMesh THEN "mesh" ELSE "nomesh"]
    IN IF ev.ok
       THEN resolve(allocate(h1, id, ev.meshes), id,
                    Decoded("obj", <<>>, sceneOf("obj", id, ev.meshes)))
       ELSE resolve(warn(h1, "Model missing or failed", id[2]), id, Null)

onOBJ(h, id, ev) ==
    LET hasMesh == ev.meshes # <<>>
        h1 == [h EXCEPT !.objTask[id].pc = "done",
                        !.objTask[id].parsed = IF ~ev.ok THEN "error"
                                               ELSE IF hasMesh THEN "mesh" ELSE "nomesh"]
    IN IF ev.ok
       THEN IF ~hasMesh
            THEN resolve(warn(h1, "OBJ has no meshes", id[2]), id, Null)
            ELSE resolve(allocate(h1, id, ev.meshes), id,
                         Decoded("obj", <<>>, sceneOf("obj", id, ev.meshes)))
       ELSE resolve(warn(h1, "Model missing or failed", id[2]), id, Null)

callback(h, id, ev) ==
    CASE id[1] = "gltf"    -> onGLTF(h, id, ev)
      [] id[1] = "audio"   -> onAudio(h, id, ev)
      [] id[1] = "mtl"     -> onMTL(h, id, ev)
      [] id[1] = "texture" -> onTexture(h, id, ev)
      [] id[1] = "obj"     -> onOBJ(h, id, ev)

----------------------------------------------------------------------------
(* Fix-up, sanitizing and the facade *)

\* cloneSkeleton(gltf.scene) / obj.clone(true): a new node graph for call c;
\* a cloned mesh holds the material objects of its source by reference
\* (a material array is copied, its elements are not) and userData is copied.
\* (variant of clone that hands out the source node itself)
cloneNone(root, c) == root

clone(root, c) == [root EXCEPT !.id = <<"clone", c>>]

materialsOf(root) == {root.meshes[sl[1]].material[sl[2]] : sl \in Slots(root.meshes)}

\* new Box3().setFromObject(root).min.y: the lowest y over the surfaces of
\* the graph; an empty box has min = +Infinity.
Infinity == 1000000
isFinite(y) == y # Infinity /\ y # -Infinity
boxMinY(root) ==
    IF root.meshes = <<>>
    THEN Infinity
    ELSE CHOOSE y \in {root.meshes[i].minY : i \in DOMAIN root.meshes} :
            \A i \in DOMAIN root.meshes : y <= root.meshes[i].minY

\* Number(object.userData.groundOffsetY ?? 0) * object.scale.y
getGroundLift(object, scaleY) ==
    (IF object.groundOffset THEN object.groundOffsetY ELSE 0) * scaleY

\* (variant of applyModelFixesStart that writes box.min.y as it is)
applyModelFixesStartUnnegated(h, path, root) ==
    LET probe == loadTexture(h, fallbackDiffusePath(path))
        minY == boxMinY(root)
    IN [h |-> probe.h, ret |-> probe.ret,
        root |-> IF isFinite(minY)
                 THEN [root EXCEPT !.groundOffset = TRUE, !.groundOffsetY = minY]
                 ELSE root]

\* applyModelFixes up to its await: the bounding box is measured and, when
\* its min.y is finite, the ground offset written; then the shared fallback
\* texture is probed.
applyModelFixesStart(h, path, root) ==
    LET probe == loadTexture(h, fallbackDiffusePath(path))
        minY == boxMinY(root)
    IN [h |-> probe.h, ret |-> probe.ret,
        root |-> IF isFinite(minY)
                 THEN [root EXCEPT !.groundOffset = TRUE, !.groundOffsetY = -minY]
                 ELSE root]

\* (variant of applyModelFixesEnd that sets the fallback texture on every
\* material, textured or not)
applyModelFixesEndOverride(h, path, root, fallbackTexture) ==
    [h |-> IF h.promise[fallbackTexture].tag = "texture"
           THEN [h EXCEPT
                   !.texture[fallbackTexture].ps1 = TRUE,
                   !.material = [m \in DOMAIN h.material |->
                                    IF m \in materialsOf(root)
                                    THEN [h.material[m] EXCEPT !.map = fallbackTexture, !.needsUpdate = TRUE]
                                    ELSE h.material[m]]]
           ELSE h,
     root |-> [root EXCEPT !.visualYawOffset = isKittyAsset(path)]]

\* (variant of applyModelFixesEnd that turns the kitty node itself by the yaw
\* offset besides tagging it)
applyModelFixesEndRotating(h, path, root, fallbackTexture) ==
    LET bare == {m \in materialsOf(root) : h.material[m].map = NoMap}
    IN [h |-> IF h.promise[fallbackTexture].tag = "texture"
              THEN [h EXCEPT
                      !.texture[fallbackTexture].ps1 = TRUE,
                      !.material = [m \in DOMAIN h.material |->
                                       IF m \in bare
                                       THEN [h.material[m] EXCEPT !.map = fallbackTexture, !.needsUpdate = TRUE]
                                       ELSE h.material[m]]]
              ELSE h,
        root |-> [root EXCEPT !.visualYawOffset = isKittyAsset(path),
                              !.rotationY = IF isKittyAsset(path) THEN 1 ELSE 0]]

\* applyModelFixes after the texture probe has settled: the fallback texture
\* is given the PS1 settings and set as map of every material of the graph
\* that has none; the kitty asset gets its yaw tag.
applyModelFixesEnd(h, path, root, fallbackTexture) ==
    LET bare == {m \in materialsOf(root) : h.material[m].map = NoMap}
    IN [h |-> IF h.promise[fallbackTexture].tag = "texture"
              THEN [h EXCEPT
                      !.texture[fallbackTexture].ps1 = TRUE,
                      !.material = [m \in DOMAIN h.material |->
                                       IF m \in bare
                                       THEN [h.material[m] EXCEPT !.map = fallbackTexture, !.needsUpdate = TRUE]
                                       ELSE h.material[m]]]
              ELSE h,
        root |-> [root EXCEPT !.visualYawOffset = isKittyAsset(path)]]

\* (variant of toLambertMaterial that keeps Phong materials as they are)
toLambertMaterialKeepPhong(h, c, sl, source) ==
    IF h.material[source].type \in {"lambert", "phong"}
    THEN source
    ELSE <<"lambert", c, sl[1], sl[2]>>

\* toLambertMaterial: the material object returned for source, met by call c
\* at material slot sl: source itself when it is a Lambert material, else a
\* new Lambert material.
toLambertMaterial(h, c, sl, source) ==
    IF h.material[source].type = "lambert"
    THEN source
    ELSE <<"lambert", c, sl[1], sl[2]>>

\* x ?? d and Boolean(x) on a field that is Undefined or <<value>>.
nullish(x, d) == IF x = Undefined THEN <<d>> ELSE x
Boolean(x) == x = <<TRUE>>

\* (variant of newLambert that leaves the new material white)
newLambertWhite(source) ==
    [type |-> "lambert", flatShading |-> TRUE, map |-> source.map, needsUpdate |-> FALSE,
     props |-> [color |-> <<"white">>,
                emissive |-> nullish(source.props.emissive, "black"),
                transparent |-> nullish(source.props.transparent, FALSE),
                opacity |-> nullish(source.props.opacity, 10),
                alphaTest |-> nullish(source.props.alphaTest, 0),
                side |-> nullish(source.props.side, "FrontSide"),
                vertexColors |-> nullish(source.props.vertexColors, FALSE),
                skinning |-> <<Boolean(source.props.skinning)>>,
                morphTargets |-> <<Boolean(source.props.morphTargets)>>,
                morphNormals |-> <<Boolean(source.props.morphNormals)>>]]

\* The material toLambertMaterial builds for a source that is no Lambert
\* material: new MeshLambertMaterial({...}) with the source's fields or their
\* defaults (a parameter passed as undefined leaves the constructor's
\* default: FrontSide, no vertex colors, black emissive), then the color and
\* the emissive color copied and the three flags set.
newLambert(source) ==
    [type |-> "lambert", flatShading |-> TRUE, map |-> source.map, needsUpdate |-> FALSE,
     props |-> [color |-> nullish(source.props.color, "white"),
                emissive |-> nullish(source.props.emissive, "black"),
                transparent |-> nullish(source.props.transparent, FALSE),
                opacity |-> nullish(source.props.opacity, 10),
                alphaTest |-> nullish(source.props.alphaTest, 0),
                side |-> nullish(source.props.side, "FrontSide"),
                vertexColors |-> nullish(source.props.vertexColors, FALSE),
                skinning |-> <<Boolean(source.props.skinning)>>,
                morphTargets |-> <<Boolean(source.props.morphTargets)>>,
                morphNormals |-> <<Boolean(source.props.morphNormals)>>]]

\* sanitizeObject: every material slot of every mesh of the graph is
\* replaced by toLambertMaterial of it; a source's texture gets the PS1
\* settings, a Lambert source is flat-shaded in place, a new Lambert material
\* is flat-shaded and takes the source's map.
sanitizeObject(h, c, root) ==
    LET slots == Slots(root.meshes)
        source(sl) == root.meshes[sl[1]].material[sl[2]]
        kept == {source(sl) : sl \in {t \in slots : toLambertMaterial(h, c, t, source(t)) = source(t)}}
        made == {sl \in slots : toLambertMaterial(h, c, sl, source(sl)) # source(sl)}
        maps == {h.material[source(sl)].map : sl \in slots} \ {NoMap}
    IN [h |-> [h EXCEPT
                 !.texture = [t \in DOMAIN h.texture |->
                                 IF t \in maps THEN [h.texture[t] EXCEPT !.ps1 = TRUE]
                                 ELSE h.texture[t]],
                 !.material =
                     [m \in {toLambertMaterial(h, c, sl, source(sl)) : sl \in made} |->
                         newLambert(h.material[source(<<m[3], m[4]>>)])]
                     @@ [m \in DOMAIN h.material |->
                            IF m \in kept /\ h.material[m].type = "lambert"
                            THEN [h.material[m] EXCEPT !.flatShading = TRUE,
                                                       !.needsUpdate = TRUE]
                            ELSE h.material[m]]],
        root |-> [root EXCEPT
                    !.sanitized = TRUE,
                    !.meshes = [i \in DOMAIN root.meshes |->
                                   [root.meshes[i] EXCEPT
                                      !.material = [j \in DOMAIN root.meshes[i].material |->
                                          toLambertMaterial(h, c, <<i, j>>,
                                                            root.meshes[i].material[j])]]]]]

\* A caller's fallback factory returns a placeholder node, or throws (the
\* placeholder builders throw when no 2D canvas context is available).
FactoryOutcomes == {"returns", "throws"}

\* The placeholder a factory returns to call c: a new group with a mesh of
\* its own flat-shaded Lambert material (makeLambert), without a map.
placeholderRoot(c) ==
    sceneOf("factory", <<"factory", c>>, <<Surface(FALSE, <<Mat("lambert", FALSE)>>, 0)>>)

fallbackFactory(h, c, factory) ==
    IF factory = "returns"
    THEN [h EXCEPT !.material =
             [m \in materialsOf(placeholderRoot(c)) |-> Material("lambert", TRUE, NoMap)] @@ @]
    ELSE h

\* (variant of instantiateModel whose fallback result is not flagged)
instantiateModelUnflagged(h, c, call, model, factory) ==
    IF model = NoModel
    THEN [h |-> fallbackFactory(h, c, factory),
          call |->
            IF factory = "returns"
            THEN [call EXCEPT !.pc = "resolved", !.awaiting = NoPromise,
                              !.factoryCalls = @ + 1,
                              !.result = [kind |-> "ModelInstance",
                                          root |-> placeholderRoot(c),
                                          clips |-> <<>>, fromFallback |-> FALSE]]
            ELSE [call EXCEPT !.pc = "rejected", !.awaiting = NoPromise,
                              !.factoryCalls = @ + 1,
                              !.result = [NoResult EXCEPT !.kind = "error"]]]
    ELSE LET clean == sanitizeObject(h, c, model.root)
         IN [h |-> clean.h,
             call |-> [call EXCEPT
                 !.pc = "resolved", !.awaiting = NoPromise, !.model = model,
                 !.result = [kind |-> "ModelInstance", root |-> clean.root,
                             clips |-> model.clips, fromFallback |-> FALSE]]]

\* (variant of instantiateModel that builds the placeholder before the check)
instantiateModelEagerFactory(h, c, call, model, factory) ==
    IF model = NoModel
    THEN [h |-> fallbackFactory(h, c, factory),
          call |->
            IF factory = "returns"
            THEN [call EXCEPT !.pc = "resolved", !.awaiting = NoPromise,
                              !.factoryCalls = @ + 1,
                              !.result = [kind |-> "ModelInstance",
                                          root |-> placeholderRoot(c),
                                          clips |-> <<>>, fromFallback |-> TRUE]]
            ELSE [call EXCEPT !.pc = "rejected", !.awaiting = NoPromise,
                              !.factoryCalls = @ + 1,
                              !.result = [NoResult EXCEPT !.kind = "error"]]]
    ELSE LET clean == sanitizeObject(h, c, model.root)
         IN [h |-> clean.h,
             call |-> [call EXCEPT
                 !.pc = "resolved", !.awaiting = NoPromise, !.model = model,
                 !.factoryCalls = @ + 1,
                 !.result = [kind |-> "ModelInstance", root |-> clean.root,
                             clips |-> model.clips, fromFallback |-> FALSE]]]

\* (variant of instantiateModel that sanitizes the placeholder as well)
instantiateModelSanitizeAll(h, c, call, model, factory) ==
    IF model = NoModel
    THEN IF factory = "returns"
         THEN LET clean == sanitizeObject(fallbackFactory(h, c, factory), c, placeholderRoot(c))
              IN [h |-> clean.h,
                  call |-> [call EXCEPT !.pc = "resolved", !.awaiting = NoPromise,
                                        !.factoryCalls = @ + 1,
                                        !.result = [kind |-> "ModelInstance",
                                                    root |-> clean.root,
                                                    clips |-> <<>>, fromFallback |-> TRUE]]]
         ELSE [h |-> h,
               call |-> [call EXCEPT !.pc = "rejected", !.awaiting = NoPromise,
                                     !.factoryCalls = @ + 1,
                                     !.result = [NoResult EXCEPT !.kind = "error"]]]
    ELSE LET clean == sanitizeObject(h, c, model.root)
         IN [h |-> clean.h,
             call |-> [call EXCEPT
                 !.pc = "resolved", !.awaiting = NoPromise, !.model = model,
                 !.result = [kind |-> "ModelInstance", root |-> clean.root,
                             clips |-> model.clips, fromFallback |-> FALSE]]]

\* instantiateModel after loadModel has returned model (NoModel for null).
instantiateModel(h, c, call, model, factory) ==
    IF model = NoModel
    THEN [h |-> fallbackFactory(h, c, factory),
          call |->
            IF factory = "returns"
            THEN [call EXCEPT !.pc = "resolved", !.awaiting = NoPromise,
                              !.factoryCalls = @ + 1,
                              !.result = [kind |-> "ModelInstance",
                                          root |-> placeholderRoot(c),
                                          clips |-> <<>>, fromFallback |-> TRUE]]
            ELSE [call EXCEPT !.pc = "rejected", !.awaiting = NoPromise,
                              !.factoryCalls = @ + 1,
                              !.result = [NoResult EXCEPT !.kind = "error"]]]
    ELSE LET clean == sanitizeObject(h, c, model.root)
         IN [h |-> clean.h,
             call |-> [call EXCEPT
                 !.pc = "resolved", !.awaiting = NoPromise, !.model = model,
                 !.result = [kind |-> "ModelInstance", root |-> clean.root,
                             clips |-> model.clips, fromFallback |-> FALSE]]]

\* loadModel up to its first await: the format dispatch.
loadModel(h, path) ==
    LET at(r, pc) == [h |-> r.h, ret |-> r.ret, pc |-> pc]
    IN IF isGLTF(path)
       THEN at(loadGLTF(h, path), "loadGLTF")
       ELSE IF isOBJ(path)
            THEN at(loadOBJ(h, path), "loadOBJ")
            ELSE at(loadGLTF(h, path), "loadGLTFDefault")

\* Whether the entry a request looks up first was absent, pending or settled
\* when the request was made (recorded for the properties only).
foundIn(h, kind, path) ==
    LET key == resolvePublicPath(path)
    IN IF ~has(cacheOf(h, kind), key) THEN "miss"
       ELSE IF isSettled(h.promise, cacheOf(h, kind)[key]) THEN "settled"
       ELSE "pending"

firstKind(path) == IF ~isGLTF(path) /\ isOBJ(path) THEN "obj" ELSE "gltf"

----------------------------------------------------------------------------
(* The game around the assets: Game, StateMachine, UI, Input and the two   *)
(* scenes.  A scene's model slots are the instantiateModel calls of its    *)
(* buildScene; what a slot receives (a decoded model, its placeholder, or  *)
(* the rejection of a throwing placeholder factory) is an input here, the  *)
(* asset actions above being how each outcome arises.                      *)

\* Number of model slots of each scene that are followed (the first ones of
\* the scene's Promise.all), number of dialogues started in a run, and
\* number of further dialogues started while the fade-out runs (RestartSpec).
MaxSlots == 2
MaxDialogues == 1
MaxRestarts == 1

STATE_WORLD == "STATE_A_WORLD"
STATE_CLUB == "STATE_B_CLUB"
NoState == "null"

WorldSlotNames == <<"kitty", "npcGirl", "worldLandscape", "houseA", "houseB">>
ClubSlotNames == <<"clubRoom", "djBooth", "kitty", "friendGirl1", "friendGirl2",
                   "friendBoy1", "friendBoy2">>

first(names) == {names[i] : i \in {j \in DOMAIN names : j <= MaxSlots}}
WorldSlots == first(WorldSlotNames)
ClubSlots == first(ClubSlotNames)

\* What instantiateModel gives a slot: the decoded model, the placeholder
\* built by the slot's factory, or a rejection when that factory throws.
SlotOutcomes == {"model", "placeholder", "rejected"}

DIALOGUE == <<"line 0", "line 1", "line 2", "line 3">>
\* DIALOGUE[index] of the source (0-based; undefined past the end)
at(lines, index) == IF index + 1 \in DOMAIN lines THEN lines[index + 1] ELSE "undefined"

MOVE_KEYS == {"KeyW"}
\* The codes handed to consumePressed (consumeInteract, consumeDialogueAdvance)
CONSUMED_KEYS == {"KeyE", "Space", "Enter"}
Keys == CONSUMED_KEYS \cup MOVE_KEYS

\* Game: start and transitionToClub hold the position of the two async
\* methods ("idle" before the call; "change", "wait20" and "wait" name the
\* await they are suspended at; "done" or "rejected" at their end).
NewGame == [running |-> FALSE, inTransition |-> FALSE, audioUnlocked |-> FALSE,
            start |-> "idle", transitionToClub |-> "idle"]

\* UI: the inline opacity of the fade overlay ("" while never set), the
\* "visible" class of the hint and of the dialogue box, the line in the box.
NewUI == [fade |-> "", hint |-> FALSE, dialog |-> FALSE, line |-> ""]

NewInput == [down |-> {}, pressed |-> {}, pointerPressed |-> FALSE, listening |-> TRUE]

\* WorldScene.  enter is the position of enter() ("models": buildScene awaits
\* its Promise.all; "audio": setupMusic awaits loadAudioBuffer); resuming
\* counts the tryStartMusic calls suspended at context.resume(); near is
\* whether the player stands within 2.1 of the NPC.
NewWorldScene == [enter |-> "idle", initialized |-> FALSE, inDialogue |-> FALSE,
                  dialogueIndex |-> 0, audioUnlocked |-> FALSE,
                  worldMusic |-> FALSE, isPlaying |-> FALSE, resuming |-> 0,
                  near |-> FALSE, slots |-> <<>>]

\* ClubScene.  music is "null", "Audio" (this.music, a decoded buffer) or
\* "HTMLAudioElement" (this.musicElement, the fallback).
NewClubScene == [enter |-> "idle", initialized |-> FALSE, audioUnlocked |-> FALSE,
                 music |-> "null", isPlaying |-> FALSE, resuming |-> 0,
                 slots |-> <<>>]

\* History: whether an E, Space, Enter or pointer event has happened, how
\* many dialogues were started and how often onDialogueFinished was invoked.
\* No function is being applied on its own.
NoEval == [op |-> "none", pc |-> "none"]

NoHistory == [flowInput |-> FALSE, dialogues |-> 0, finished |-> 0,
              transitions |-> 0, changes |-> 0, disposed |-> FALSE]

----------------------------------------------------------------------------
(* Actions *)

Init ==
    /\ gltfCache = <<>>
    /\ objCache = <<>>
    /\ mtlCache = <<>>
    /\ audioCache = <<>>
    /\ textureCache = <<>>
    /\ promise = <<>>
    /\ inflight = {}
    /\ loaderCalls = <<>>
    /\ console = <<>>
    /\ objTask = <<>>
    /\ material = <<>>
    /\ texture = <<>>
    /\ calls = [c \in Calls |-> IdleCall]
    /\ currentKey = NoState
    /\ game = NewGame
    /\ ui = NewUI
    /\ input = NewInput
    /\ world = NewWorldScene
    /\ club = NewClubScene
    /\ hist = NoHistory
    /\ eval = NoEval

\* Calls are numbered in the order they are issued.
canIssue(c) ==
    /\ calls[c].pc = "idle"
    /\ \A d \in Calls : d < c => calls[d].pc # "idle"

canResume(c, pc) ==
    /\ calls[c].pc = pc
    /\ isSettled(promise, calls[c].awaiting)

\* A scene calls assets.instantiateModel(path, fallbackFactory).
CallInstantiateModel(c, path) ==
    /\ UNCHANGED <<gameVars, eval>>
    /\ canIssue(c)
    /\ \E r \in {loadModel(Heap, path)} :
          /\ Commit(r.h)
          /\ calls' = [calls EXCEPT ![c] =
                 [IdleCall EXCEPT !.op = "instantiateModel", !.path = path,
                                  !.pc = r.pc, !.awaiting = r.ret,
                                  !.found = foundIn(Heap, firstKind(path), path)]]

\* A scene calls assets.loadAudioBuffer(path).
CallLoadAudioBuffer(c, path) ==
    /\ UNCHANGED <<gameVars, eval>>
    /\ canIssue(c)
    /\ \E r \in {loadAudio(Heap, path)} :
          /\ Commit(r.h)
          /\ calls' = [calls EXCEPT ![c] =
                 [IdleCall EXCEPT !.op = "loadAudioBuffer", !.path = path,
                                  !.pc = "loadAudioBuffer", !.awaiting = r.ret,
                                  !.found = foundIn(Heap, "audio", path)]]

\* A loader reports the end of a request through one of its callbacks.
LoaderCallback(id, ev) ==
    /\ UNCHANGED <<gameVars, eval>>
    /\ id \in inflight
    /\ \E h \in {callback(Heap, id, ev)} : Commit([h EXCEPT !.inflight = @ \ {id}])
    /\ UNCHANGED calls

\* The decode task of an obj promise continues after a material probe.
ObjTaskResume(id) ==
    /\ UNCHANGED <<gameVars, eval>>
    /\ objTask[id].pc = "mtl"
    /\ isSettled(promise, objTask[id].awaiting)
    /\ \E h \in {objTaskResume(Heap, id)} : Commit(h)
    /\ UNCHANGED calls

\* loadModel has returned model to instantiateModel, which runs to its end
\* (h is the heap as loadModel left it).
return(c, h, model) ==
    \E factory \in (IF model = NoModel THEN FactoryOutcomes ELSE {"returns"}) :
    \E r \in {instantiateModel(h, c, calls[c], model, factory)} :
        /\ Commit(r.h)
        /\ calls' = [calls EXCEPT ![c] = r.call]

\* (variant of fixClone that runs the fix-up for the first request of a
\* path only)
fixCloneFirstOnly(c, scene, clips) ==
    IF calls[c].found = "none"
    THEN \E f \in {applyModelFixesStart(Heap, calls[c].path, clone(scene, c))} :
            /\ Commit(f.h)
            /\ calls' = [calls EXCEPT ![c].pc = "applyModelFixes",
                                      ![c].awaiting = f.ret,
                                      ![c].fixups = @ + 1,
                                      ![c].model = [root |-> f.root, clips |-> clips]]
    ELSE return(c, Heap, [root |-> clone(scene, c), clips |-> clips])

\* A decode has succeeded: its node is cloned and the fix-up begins.
fixClone(c, scene, clips) ==
    \E f \in {applyModelFixesStart(Heap, calls[c].path, clone(scene, c))} :
        /\ Commit(f.h)
        /\ calls' = [calls EXCEPT ![c].pc = "applyModelFixes",
                                  ![c].awaiting = f.ret,
                                  ![c].fixups = @ + 1,
                                  ![c].model = [root |-> f.root, clips |-> clips]]

\* loadModel, container branch, after "await this.loadGLTF(path)".
ResumeLoadGLTF(c) ==
    /\ UNCHANGED <<gameVars, eval>>
    /\ canResume(c, "loadGLTF")
    /\ LET call == calls[c]
           gltf == promise[call.awaiting]
       IN IF gltf.tag = "gltf"
          THEN fixClone(c, gltf.scene, gltf.animations)
          ELSE IF isKittyAsset(call.path)
               THEN \E objPath \in {replaceExtension(call.path, <<".", "obj">>)} :
                    \E r \in {loadOBJ(Heap, objPath)} :
                       /\ Commit(r.h)
                       /\ calls' = [calls EXCEPT ![c].pc = "loadOBJFallback",
                                                 ![c].awaiting = r.ret]
               ELSE return(c, Heap, NoModel)

\* loadModel after "await this.loadOBJ(...)", in the kitty chain
\* (pc "loadOBJFallback") or in the legacy-mesh branch (pc "loadOBJ").
ResumeLoadOBJ(c) ==
    /\ UNCHANGED <<gameVars, eval>>
    /\ canResume(c, "loadOBJ") \/ canResume(c, "loadOBJFallback")
    /\ LET obj == promise[calls[c].awaiting]
       IN IF obj.tag = "obj"
          THEN fixClone(c, obj.scene, <<>>)
          ELSE return(c, Heap, NoModel)

\* applyModelFixes after "await this.loadTexture(...)", back through
\* loadModel into instantiateModel.
ResumeApplyModelFixes(c) ==
    /\ UNCHANGED <<gameVars, eval>>
    /\ canResume(c, "applyModelFixes")
    /\ \E f \in {applyModelFixesEnd(Heap, calls[c].path, calls[c].model.root,
                                    calls[c].awaiting)} :
          return(c, f.h, [calls[c].model EXCEPT !.root = f.root])

\* loadModel, default branch, after the second "await this.loadGLTF(path)".
ResumeLoadGLTFDefault(c) ==
    /\ UNCHANGED <<gameVars, eval>>
    /\ canResume(c, "loadGLTFDefault")
    /\ LET gltf == promise[calls[c].awaiting]
       IN IF gltf.tag = "gltf"
          THEN return(c, Heap, [root |-> clone(gltf.scene, c), clips |-> gltf.animations])
          ELSE return(c, Heap, NoModel)

\* The caller's await of loadAudioBuffer's promise completes.
ResumeLoadAudioBuffer(c) ==
    /\ UNCHANGED <<gameVars, eval>>
    /\ canResume(c, "loadAudioBuffer")
    /\ LET buffer == promise[calls[c].awaiting]
       IN calls' = [calls EXCEPT ![c].pc = "resolved",
                                 ![c].awaiting = NoPromise,
                                 ![c].result = [NoResult EXCEPT !.kind =
                                     IF buffer.tag = "audio" THEN "AudioBuffer" ELSE "null"]]
    /\ UNCHANGED assetVars

Next ==
    \/ \E c \in Calls, path \in ModelPaths : CallInstantiateModel(c, path)
    \/ \E c \in Calls, path \in AudioPaths : CallLoadAudioBuffer(c, path)
    \/ \E id \in inflight : \E ev \in LoaderEvents(id) : LoaderCallback(id, ev)
    \/ \E id \in DOMAIN objTask : ObjTaskResume(id)
    \/ \E c \in Calls : ResumeLoadGLTF(c)
    \/ \E c \in Calls : ResumeLoadOBJ(c)
    \/ \E c \in Calls : ResumeApplyModelFixes(c)
    \/ \E c \in Calls : ResumeLoadGLTFDefault(c)
    \/ \E c \in Calls : ResumeLoadAudioBuffer(c)

Spec == Init /\ [][Next]_vars

\* Everything but the issuing of new calls: loader callbacks and the
\* continuations of settled awaits.
Progress ==
    \/ \E id \in inflight : \E ev \in LoaderEvents(id) : LoaderCallback(id, ev)
    \/ \E id \in DOMAIN objTask : ObjTaskResume(id)
    \/ \E c \in Calls :
          \/ ResumeLoadGLTF(c)
          \/ ResumeLoadOBJ(c)
          \/ ResumeApplyModelFixes(c)
          \/ ResumeLoadGLTFDefault(c)
          \/ ResumeLoadAudioBuffer(c)

\* The event loop does not stop while a continuation can run, and (the
\* assumption of the eventual-resolution claim) a loader request in flight
\* ends with one of its two callbacks.
Fairness == WF_vars(Progress)

FairSpec == Spec /\ Fairness

----------------------------------------------------------------------------
(* The game: synchronous code *)

\* The game's objects, threaded through the synchronous code of one step.
Objects == [currentKey |-> currentKey, game |-> game, ui |-> ui, input |-> input,
            world |-> world, club |-> club, hist |-> hist]

Update(g) ==
    /\ currentKey' = g.currentKey
    /\ game' = g.game
    /\ ui' = g.ui
    /\ input' = g.input
    /\ world' = g.world
    /\ club' = g.club
    /\ hist' = g.hist

\* UI
showHint(g) == [g EXCEPT !.ui.hint = TRUE]
hideHint(g) == [g EXCEPT !.ui.hint = FALSE]
showDialogue(g, line) == [g EXCEPT !.ui.line = line, !.ui.dialog = TRUE]
hideDialogue(g) == [g EXCEPT !.ui.dialog = FALSE]

\* UI.fadeOut and UI.fadeIn up to their first await: the overlay's opacity
\* is set to "1" and a timer is started.
fadeStart(g) == [g EXCEPT !.ui.fade = "1"]

\* WorldScene.tryStartMusic up to "await this.listener.context.resume()"
worldTryStartMusic(g) ==
    IF ~g.world.audioUnlocked \/ ~g.world.worldMusic \/ g.world.isPlaying
    THEN g
    ELSE [g EXCEPT !.world.resuming = @ + 1]

\* ClubScene.tryStartMusic up to "await this.listener.context.resume()"
clubTryStartMusic(g) ==
    IF ~g.club.audioUnlocked THEN g ELSE [g EXCEPT !.club.resuming = @ + 1]

worldSetAudioUnlocked(g, value) ==
    worldTryStartMusic([g EXCEPT !.world.audioUnlocked = value])

clubSetAudioUnlocked(g, value) ==
    clubTryStartMusic([g EXCEPT !.club.audioUnlocked = value])

\* Game.unlockAudio up to its await (nothing follows the await).
unlockAudio(g) ==
    IF g.game.audioUnlocked
    THEN g
    ELSE clubSetAudioUnlocked(
             worldSetAudioUnlocked([g EXCEPT !.game.audioUnlocked = TRUE], TRUE), TRUE)

\* Input.notifyGesture: the one callback registered by the Game constructor
notifyGesture(g) == unlockAudio(g)

\* The callback handed to WorldScene as onDialogueGesture
onDialogueGesture(g) == unlockAudio(g)

\* (variant of transitionToClub that changes state without the fade-out)
transitionToClubNoFadeOut(g) ==
    IF g.game.inTransition \/ g.currentKey = STATE_CLUB
    THEN g
    ELSE [g EXCEPT !.game.inTransition = TRUE,
                   !.game.transitionToClub = "change",
                   !.currentKey = STATE_CLUB,
                   !.club.enter = "models"]

\* (variant of transitionToClub without the guard)
transitionToClubUnguarded(g) ==
    fadeStart([g EXCEPT !.game.inTransition = TRUE,
                        !.game.transitionToClub = "fadeOut",
                        !.hist.transitions = @ + 1])

\* Game.transitionToClub up to "await this.ui.fadeOut(520)"
transitionToClub(g) ==
    IF g.game.inTransition \/ g.currentKey = STATE_CLUB
    THEN g
    ELSE fadeStart([g EXCEPT !.game.inTransition = TRUE,
                             !.game.transitionToClub = "fadeOut",
                             !.hist.transitions = @ + 1])

\* The callback handed to WorldScene as onDialogueFinished
onDialogueFinished(g) == transitionToClub([g EXCEPT !.hist.finished = @ + 1])

\* Input.consumePressed, consumeInteract, consumeDialogueAdvance: what they
\* return, and the input they leave
has_pressed(g, code) == code \in g.input.pressed
consumePressed(g, code) == [g EXCEPT !.input.pressed = @ \ {code}]

consumeInteract(g) == consumePressed(g, "KeyE")

canConsumeDialogueAdvance(g) ==
    has_pressed(g, "Space") \/ has_pressed(g, "Enter") \/ g.input.pointerPressed

consumeDialogueAdvance(g) ==
    IF has_pressed(g, "Space") THEN consumePressed(g, "Space")
    ELSE IF has_pressed(g, "Enter") THEN consumePressed(g, "Enter")
    ELSE [g EXCEPT !.input.pointerPressed = FALSE]

endFrame(g) == [g EXCEPT !.input.pressed = {}, !.input.pointerPressed = FALSE]

\* WorldScene
startDialogue(g) ==
    showDialogue(hideHint([g EXCEPT !.world.inDialogue = TRUE,
                                    !.world.dialogueIndex = 0,
                                    !.hist.dialogues = @ + 1]),
                 at(DIALOGUE, 0))

\* The player moves (or not) by the movement keys held down; position is
\* what the movement made of the player's distance to the NPC.
canMove(g) == g.input.down \cap MOVE_KEYS # {}
handleMovement(g, position) == [g EXCEPT !.world.near = position]

\* (variant of handleInteraction without the range test)
handleInteractionAnywhere(g) ==
    IF has_pressed(g, "KeyE")
    THEN startDialogue(onDialogueGesture(consumeInteract(showHint(g))))
    ELSE showHint(g)

handleInteraction(g) ==
    IF g.world.near
    THEN IF has_pressed(g, "KeyE")
         THEN startDialogue(onDialogueGesture(consumeInteract(showHint(g))))
         ELSE showHint(g)
    ELSE hideHint(g)

\* (variant of advance that skips a line)
advanceTwo(g) == [g EXCEPT !.world.dialogueIndex = @ + 2]
advance(g) == [g EXCEPT !.world.dialogueIndex = @ + 1]

handleDialogueInput(g) ==
    IF ~canConsumeDialogueAdvance(g)
    THEN g
    ELSE LET g1 == advance(onDialogueGesture(consumeDialogueAdvance(g)))
         IN IF g1.world.dialogueIndex >= Len(DIALOGUE)
            THEN onDialogueFinished(hideDialogue([g1 EXCEPT !.world.inDialogue = FALSE]))
            ELSE showDialogue(g1, at(DIALOGUE, g1.world.dialogueIndex))

worldUpdate(g, position) ==
    IF g.world.inDialogue
    THEN handleDialogueInput(g)
    ELSE handleInteraction(handleMovement(g, position))

reset(g) == [g EXCEPT !.world.near = FALSE, !.world.inDialogue = FALSE,
                      !.world.dialogueIndex = 0]

\* WorldScene.enter from "this.initialized = true" to its end
worldEntered(g) ==
    worldTryStartMusic(hideHint(hideDialogue(
        reset([g EXCEPT !.world.initialized = TRUE, !.world.enter = "done"]))))

worldExit(g) ==
    LET g1 == hideHint(hideDialogue(g))
    IN IF g1.world.isPlaying THEN [g1 EXCEPT !.world.isPlaying = FALSE] ELSE g1

\* ClubScene.enter from "this.initialized = true" to its end
clubEntered(g) ==
    clubTryStartMusic(hideHint(hideDialogue(
        [g EXCEPT !.club.initialized = TRUE, !.club.enter = "done"])))

\* StateMachine.update
update(g, position) ==
    IF g.currentKey = STATE_WORLD THEN worldUpdate(g, position) ELSE g

----------------------------------------------------------------------------
(* The game: actions *)

assetsUnchanged == UNCHANGED <<assetVars, calls, eval>>

\* main.ts calls game.start(): onResize, then stateMachine.change(STATE_WORLD)
\* up to the Promise.all of WorldScene.buildScene.
Start ==
    /\ game.start = "idle"
    /\ Update([Objects EXCEPT !.game.start = "change",
                              !.currentKey = STATE_WORLD,
                              !.world.enter = "models"])
    /\ assetsUnchanged

\* keydown; repeat is event.repeat.  Of the set down only the move keys are
\* kept (getMovementVector, its one reader, asks for no other key), and of
\* the set pressed only the keys that consumePressed is ever asked for.
onKeyDown(g, code, repeat) ==
    notifyGesture(
        [g EXCEPT !.input.pressed =
                      IF repeat THEN @ ELSE @ \cup ({code} \cap CONSUMED_KEYS),
                  !.input.down = @ \cup ({code} \cap MOVE_KEYS),
                  !.hist.flowInput = @ \/ code \in CONSUMED_KEYS])

KeyDown(code, repeat) ==
    /\ input.listening
    /\ code = "KeyE" => hist.dialogues < MaxDialogues \/ world.inDialogue
    /\ Update(onKeyDown(Objects, code, repeat))
    /\ assetsUnchanged

\* The player presses E again while the fade-out of the transition runs.
KeyDownWhileFadingOut ==
    /\ input.listening
    /\ game.transitionToClub = "fadeOut"
    /\ hist.dialogues >= MaxDialogues /\ ~world.inDialogue
    /\ hist.dialogues < MaxDialogues + MaxRestarts
    /\ Update(onKeyDown(Objects, "KeyE", FALSE))
    /\ assetsUnchanged

KeyUp(code) ==
    /\ input.listening
    /\ code \in input.down
    /\ Update([Objects EXCEPT !.input.down = @ \ {code}])
    /\ assetsUnchanged

PointerDown ==
    /\ input.listening
    /\ Update(notifyGesture([Objects EXCEPT !.input.pointerPressed = TRUE,
                                            !.hist.flowInput = TRUE]))
    /\ assetsUnchanged

\* Game.tick: one animation frame.
Tick ==
    /\ game.running
    /\ \E position \in (IF canMove(Objects) /\ ~world.inDialogue /\ currentKey = STATE_WORLD
                        THEN BOOLEAN ELSE {world.near}) :
          Update(endFrame(update(Objects, position)))
    /\ assetsUnchanged

\* Game.start after "await this.stateMachine.change(STATE_WORLD)": fadeIn(450)
startFadeIn(g) == fadeStart([g EXCEPT !.game.start = "fadeIn.wait20"])

\* Game.transitionToClub after "await this.stateMachine.change(STATE_CLUB)"
transitionFadeIn(g) ==
    fadeStart(clubSetAudioUnlocked([g EXCEPT !.game.transitionToClub = "fadeIn.wait20"],
                                   g.game.audioUnlocked))

\* WorldScene.setupMusic up to its await
worldSetupMusic(g) ==
    IF g.world.worldMusic
    THEN startFadeIn(worldEntered(g))
    ELSE [g EXCEPT !.world.enter = "audio"]

\* ClubScene.setupMusic up to its await
clubSetupMusic(g) ==
    IF g.club.music # "null"
    THEN transitionFadeIn(clubEntered(g))
    ELSE [g EXCEPT !.club.enter = "audio"]

\* The Promise.all of WorldScene.buildScene settles: with the slots' roots,
\* or rejected when an instantiateModel call was.
ResumeWorldBuildScene(results) ==
    /\ world.enter = "models"
    /\ IF \E slot \in WorldSlots : results[slot] = "rejected"
       THEN Update([Objects EXCEPT !.world.enter = "rejected", !.game.start = "rejected"])
       ELSE Update(worldSetupMusic([Objects EXCEPT !.world.slots = results]))
    /\ assetsUnchanged

\* loadAudioBuffer("/assets/audio/world_track.mp3") resolves, with a buffer
\* or with null; buildScene, enter and change return, start goes on.
ResumeWorldSetupMusic(buffer) ==
    /\ world.enter = "audio"
    /\ IF buffer
       THEN Update(startFadeIn(worldEntered(
                worldTryStartMusic([Objects EXCEPT !.world.worldMusic = TRUE]))))
       ELSE Update(startFadeIn(worldEntered(Objects)))
    /\ assetsUnchanged

\* The Promise.all of ClubScene.buildScene settles.
ResumeClubBuildScene(results) ==
    /\ club.enter = "models"
    /\ IF \E slot \in ClubSlots : results[slot] = "rejected"
       THEN Update([Objects EXCEPT !.club.enter = "rejected",
                                   !.game.transitionToClub = "rejected"])
       ELSE Update(clubSetupMusic([Objects EXCEPT !.club.slots = results]))
    /\ assetsUnchanged

\* loadAudioBuffer("/assets/audio/club_track.mp3") resolves; with null the
\* scene falls back to an <audio> element.
ResumeClubSetupMusic(buffer) ==
    /\ club.enter = "audio"
    /\ Update(transitionFadeIn(clubEntered(clubTryStartMusic(
           [Objects EXCEPT !.club.music = IF buffer THEN "Audio" ELSE "HTMLAudioElement"]))))
    /\ assetsUnchanged

\* StateMachine.change(STATE_CLUB) up to the Promise.all of
\* ClubScene.buildScene
changeToClub(g) ==
    IF g.currentKey = STATE_CLUB
    THEN transitionFadeIn([g EXCEPT !.hist.changes = @ + 1])
    ELSE LET g1 == [worldExit(g) EXCEPT !.currentKey = STATE_CLUB,
                                        !.game.transitionToClub = "change",
                                        !.hist.changes = @ + 1]
         IN IF g1.club.initialized
            THEN transitionFadeIn(clubEntered(g1))
            ELSE [g1 EXCEPT !.club.enter = "models"]

\* A timer of UI.wait fires in fadeIn or fadeOut, and the method that
\* awaits the fade goes on.
ResumeWait(method) ==
    /\ LET pc == game[method]
       IN \/ /\ pc = "fadeOut"
             /\ Update(changeToClub(Objects))
          \/ /\ pc = "fadeIn.wait20"
             /\ Update([Objects EXCEPT !.ui.fade = "0", !.game[method] = "fadeIn.wait"])
          \/ /\ pc = "fadeIn.wait"
             /\ Update(IF method = "start"
                       THEN [Objects EXCEPT !.game.running = TRUE, !.game.start = "done"]
                       ELSE [Objects EXCEPT !.game.inTransition = FALSE,
                                            !.game.transitionToClub = "done"])
    /\ assetsUnchanged

\* WorldScene.tryStartMusic after "await this.listener.context.resume()",
\* which resolved (ok) or was refused by the browser.
ResumeWorldTryStartMusic(ok) ==
    /\ world.resuming > 0
    /\ Update([Objects EXCEPT !.world.resuming = @ - 1,
                              !.world.isPlaying = @ \/ ok])
    /\ assetsUnchanged

\* ClubScene.tryStartMusic after the same await: this.music.play(), or
\* "await this.musicElement.play()" when only the element exists.
ResumeClubTryStartMusic(ok) ==
    /\ club.resuming > 0
    /\ Update([Objects EXCEPT !.club.resuming = @ - 1,
                              !.club.isPlaying = @ \/ (ok /\ club.music # "null")])
    /\ assetsUnchanged

GameNext ==
    \/ Start
    \/ \E code \in Keys, repeat \in BOOLEAN : KeyDown(code, repeat)
    \/ \E code \in Keys : KeyUp(code)
    \/ PointerDown
    \/ Tick
    \/ \E results \in [WorldSlots -> SlotOutcomes] : ResumeWorldBuildScene(results)
    \/ \E buffer \in BOOLEAN : ResumeWorldSetupMusic(buffer)
    \/ \E results \in [ClubSlots -> SlotOutcomes] : ResumeClubBuildScene(results)
    \/ \E buffer \in BOOLEAN : ResumeClubSetupMusic(buffer)
    \/ \E method \in {"start", "transitionToClub"} : ResumeWait(method)
    \/ \E ok \in BOOLEAN : ResumeWorldTryStartMusic(ok)
    \/ \E ok \in BOOLEAN : ResumeClubTryStartMusic(ok)

GameSpec == Init /\ [][GameNext]_vars

\* Game.dispose: cancelAnimationFrame takes the scheduled frame away, which
\* "running" stands for; Input.dispose removes the three listeners.
dispose(g) ==
    [g EXCEPT !.game.running = FALSE,
              !.input.listening = FALSE,
              !.hist.disposed = TRUE]

\* The page calls game.dispose(), once, at any moment after game.start().
Dispose ==
    /\ game.start # "idle" /\ ~hist.disposed
    /\ Update(dispose(Objects))
    /\ assetsUnchanged

\* The game with a page that disposes of it.
DisposeNext ==
    \/ GameNext
    \/ Dispose

DisposeSpec == Init /\ [][DisposeNext]_vars

\* The game with a player who talks to the NPC again during the fade-out.
RestartNext ==
    \/ GameNext
    \/ KeyDownWhileFadingOut

RestartSpec == Init /\ [][RestartNext]_vars

\* What the event loop and the browser do on their own: timers fire, loads
\* and context.resume() settle.  Frames and the player's input are left out.
GameProgress ==
    \/ Start
    \/ \E results \in [WorldSlots -> SlotOutcomes] : ResumeWorldBuildScene(results)
    \/ \E buffer \in BOOLEAN : ResumeWorldSetupMusic(buffer)
    \/ \E results \in [ClubSlots -> SlotOutcomes] : ResumeClubBuildScene(results)
    \/ \E buffer \in BOOLEAN : ResumeClubSetupMusic(buffer)
    \/ \E method \in {"start", "transitionToClub"} : ResumeWait(method)
    \/ \E ok \in BOOLEAN : ResumeWorldTryStartMusic(ok)
    \/ \E ok \in BOOLEAN : ResumeClubTryStartMusic(ok)

FairGameSpec == GameSpec /\ WF_vars(GameProgress)

----------------------------------------------------------------------------
(* Functions applied on their own *)

\* Base prefixes a build can be configured with (import.meta.env.BASE_URL).
BasePrefixes ==
    { <<>>, <<"/">>, <<".", "/">>, <<"/", "app">>, <<"/", "app", "/">>,
      <<"/", "app", "/", "/">> }

\* Logical paths: those of the game, remote ones, and the edge cases of the
\* scheme test.
LogicalPaths ==
    ModelPaths \cup AudioPaths \cup
    { <<>>, <<"/">>, <<"x">>,
      <<"/", "/", "cdn", "/", "x", ".", "glb">>,
      <<"https", ":", "/", "/", "cdn", "/", "x", ".", "glb">>,
      <<"s3", ":", "/", "/", "bucket", "/", "x", ".", "glb">>,
      <<"https", ":", "/", "x">>,
      <<":", "/", "/", "x">> }

\* Source materials handed to the sanitizer: of the target class or of
\* another one, with and without a texture, each field the sanitizer reads
\* present or lacking.
SourceMaterial == <<"source">>
SourceTexture == <<"map", SourceMaterial>>
SourceMaterials ==
    { [type |-> type, flatShading |-> FALSE, map |-> map, needsUpdate |-> FALSE,
       props |-> [color |-> color, emissive |-> emissive, transparent |-> transparent,
                  opacity |-> opacity, alphaTest |-> alphaTest, side |-> side,
                  vertexColors |-> vertexColors, skinning |-> skinning,
                  morphTargets |-> morphTargets, morphNormals |-> morphNormals]] :
      type \in {"lambert", "phong", "basic"},
      map \in {NoMap, SourceTexture},
      color \in {Undefined, <<"white">>, <<"red">>},
      emissive \in {Undefined, <<"green">>},
      transparent \in {Undefined, <<FALSE>>, <<TRUE>>},
      opacity \in {Undefined, <<0>>, <<5>>},
      alphaTest \in {Undefined, <<5>>},
      side \in {Undefined, <<"DoubleSide">>},
      vertexColors \in {Undefined, <<TRUE>>},
      skinning \in {Undefined, <<FALSE>>, <<TRUE>>},
      morphTargets \in {Undefined, <<TRUE>>},
      morphNormals \in {Undefined, <<TRUE>>} }

\* A graph of one mesh with the source as its single material.
SourceGraph ==
    Node("eval", <<"eval">>,
         <<[isArray |-> FALSE, material |-> <<SourceMaterial>>, minY |-> 0]>>)

\* A StateMachine on its own: the keys change() is called with, of which
\* Init registers some; log is the sequence of exit() and enter() calls made
\* on the states, key the argument of the last change() and thrown whether
\* that call threw.
MaxChanges == 3
MachineKeys == {STATE_WORLD, STATE_CLUB, "STATE_C_MENU"}
StateMachines ==
    {[op |-> "StateMachine", pc |-> "constructed", states |-> states,
      currentKey |-> NoState, currentState |-> NoState, log |-> <<>>,
      changes |-> 0, key |-> NoState, thrown |-> FALSE] : states \in SUBSET MachineKeys}

\* (variant of change that enters the next state before the previous exits)
changeEnterFirst(m, key) ==
    IF m.currentKey = key
    THEN m
    ELSE IF key \notin m.states
    THEN [m EXCEPT !.thrown = TRUE]
    ELSE [m EXCEPT !.log = @ \o <<<<"enter", key>>>>
                           \o (IF m.currentState # NoState
                               THEN <<<<"exit", m.currentState>>>> ELSE <<>>),
                   !.currentState = key,
                   !.currentKey = key]

\* (variant of change that looks the key up after the previous state's exit)
changeExitFirst(m, key) ==
    IF m.currentKey = key
    THEN m
    ELSE LET exited == IF m.currentState # NoState
                       THEN [m EXCEPT !.log = @ \o <<<<"exit", m.currentState>>>>] ELSE m
         IN IF key \notin m.states
            THEN [exited EXCEPT !.thrown = TRUE]
            ELSE [exited EXCEPT !.log = @ \o <<<<"enter", key>>>>,
                                !.currentState = key,
                                !.currentKey = key]

\* StateMachine.change up to "await next.enter()": a state is named by the
\* key it was registered under.
change(m, key) ==
    IF m.currentKey = key
    THEN m
    ELSE IF key \notin m.states
    THEN [m EXCEPT !.thrown = TRUE]
    ELSE [m EXCEPT !.log = @ \o (IF m.currentState # NoState
                                 THEN <<<<"exit", m.currentState>>>> ELSE <<>>)
                           \o <<<<"enter", key>>>>,
                   !.currentState = key,
                   !.currentKey = key]

ResolveArguments ==
    {[op |-> "resolvePublicPath", pc |-> "called", base |-> base, path |-> path,
      result |-> <<>>] : base \in BasePrefixes, path \in LogicalPaths}

FunctionInit ==
    /\ gltfCache = <<>>
    /\ objCache = <<>>
    /\ mtlCache = <<>>
    /\ audioCache = <<>>
    /\ textureCache = <<>>
    /\ promise = <<>>
    /\ inflight = {}
    /\ loaderCalls = <<>>
    /\ console = <<>>
    /\ objTask = <<>>
    /\ calls = [c \in Calls |-> IdleCall]
    /\ currentKey = NoState
    /\ game = NewGame
    /\ ui = NewUI
    /\ input = NewInput
    /\ world = NewWorldScene
    /\ club = NewClubScene
    /\ hist = NoHistory
    /\ \/ /\ eval \in ResolveArguments
          /\ material = <<>>
          /\ texture = <<>>
       \/ /\ eval \in StateMachines
          /\ material = <<>>
          /\ texture = <<>>
       \/ \E source \in SourceMaterials :
             /\ eval = [op |-> "toLambertMaterial", pc |-> "called", source |-> source,
                        result |-> <<>>]
             /\ material = (SourceMaterial :> source)
             /\ texture = IF source.map = NoMap THEN <<>>
                          ELSE (source.map :> Texture(FALSE))

\* resolvePublicPath runs to its return.
ApplyResolvePublicPath ==
    /\ eval.op = "resolvePublicPath" /\ eval.pc = "called"
    /\ eval' = [eval EXCEPT !.pc = "returned",
                            !.result = resolveWithBase(eval.base, eval.path)]
    /\ UNCHANGED <<assetVars, calls, gameVars>>

\* sanitizeObject on a graph of one mesh whose material is the source:
\* mesh.material = toLambertMaterial(mesh.material).
ApplyToLambertMaterial ==
    /\ eval.op = "toLambertMaterial" /\ eval.pc = "called"
    /\ \E r \in {sanitizeObject(Heap, 1, SourceGraph)} :
          /\ Commit(r.h)
          /\ eval' = [eval EXCEPT !.pc = "returned",
                                  !.result = r.root.meshes[1].material[1]]
    /\ UNCHANGED <<calls, gameVars>>

\* stateMachine.change(key) is called.
ApplyChange(key) ==
    /\ eval.op = "StateMachine" /\ eval.changes < MaxChanges
    /\ eval' = change([eval EXCEPT !.pc = "changed", !.changes = @ + 1, !.key = key,
                                   !.thrown = FALSE], key)
    /\ UNCHANGED <<assetVars, calls, gameVars>>

FunctionNext ==
    \/ ApplyResolvePublicPath
    \/ ApplyToLambertMaterial
    \/ \E key \in MachineKeys : ApplyChange(key)

FunctionSpec == FunctionInit /\ [][FunctionNext]_vars

----------------------------------------------------------------------------
(* Vocabulary of the properties *)

keyOf(c) == resolvePublicPath(calls[c].path)

isModelCall(c) == calls[c].op = "instantiateModel"
isAudioCall(c) == calls[c].op = "loadAudioBuffer"

hasSettled(c) == calls[c].pc \in {"resolved", "rejected"}

\* The value a cache serves for a key: Pending while absent or in flight.
served(cache, key) == IF has(cache, key) THEN promise[cache[key]] ELSE Pending

Warnings(key) ==
    Count(console, <<"Model missing or failed", key>>)
    + Count(console, <<"OBJ has no meshes", key>>)
    + Count(console, <<"Audio missing or failed", key>>)

KittyObjKey == <<"/", "assets", "/", "models", "/", "kitty", ".", "obj">>

\* What a settled call tells its caller about the decode.
outcome(c) ==
    IF calls[c].result.kind = "ModelInstance" /\ ~calls[c].result.fromFallback
    THEN <<calls[c].result.root.from, calls[c].result.clips>>
    ELSE IF calls[c].result.kind = "AudioBuffer" THEN <<"audio", <<>>>>
    ELSE <<"failed", <<>>>>

----------------------------------------------------------------------------
(* C1 *)

\* One promise is ever created per cache kind and key, it is the cache's
\* entry, and at most one loader request is started for it (exactly one
\* once it has settled).
OneLoadPerKey ==
    /\ \A id \in DOMAIN promise :
          /\ id[3] = 1
          /\ has(cacheOf(Heap, id[1]), id[2])
          /\ cacheOf(Heap, id[1])[id[2]] = id
          /\ isSettled(promise, id) => Count(loaderCalls, <<id[1], id[2]>>) = 1
    /\ \A k \in DOMAIN loaderCalls : loaderCalls[k] = 1

\* Requests for the same resolved path observe the same outcome.
SameOutcomePerKey ==
    \A c, d \in Calls :
        (hasSettled(c) /\ hasSettled(d) /\ calls[c].op = calls[d].op /\ keyOf(c) = keyOf(d))
            => outcome(c) = outcome(d)

\* C1 as stated: for each of the five cache kinds, requests resolving to the
\* same absolute path start exactly one loader call, observe the same
\* outcome, and a failed load of that path logs one warning.
C1_OneLoadOneWarningEveryKind ==
    /\ OneLoadPerKey
    /\ SameOutcomePerKey
    /\ \A id \in DOMAIN promise : promise[id] = Null => Warnings(id[2]) = 1

\* C1 (amended): for each of the five cache kinds, requests resolving to the
\* same absolute path start exactly one loader call and observe the same
\* outcome; a failed load logs exactly one warning for the container-model,
\* legacy-mesh and audio kinds and none for the material-description and
\* texture kinds, whose failures are silent.
C1_OneLoadPerResolvedPath ==
    /\ OneLoadPerKey
    /\ SameOutcomePerKey
    /\ \A id \in DOMAIN promise :
          Warnings(id[2]) = IF promise[id] = Null /\ id[1] \in {"gltf", "obj", "audio"}
                            THEN 1 ELSE 0

\* Two requests with different logical paths for one resolved path, the
\* second issued while the first load was in flight, both settled after the
\* one load failed.
C1_Witness ==
    /\ calls[1].path = KittyGlb /\ calls[2].path = KittyGlbRel
    /\ calls[2].found = "pending"
    /\ hasSettled(1) /\ hasSettled(2)
    /\ served(gltfCache, keyOf(1)) = Null
    /\ Count(loaderCalls, <<"gltf", keyOf(1)>>) = 1
    /\ Warnings(keyOf(1)) = 1

\* Every decode attempt that applies to the path has failed: the container
\* decode, and for the kitty path also the legacy-mesh decode at the swapped
\* extension; the legacy-mesh decode for a legacy-mesh path.
allDecodesFailed(path) ==
    IF isGLTF(path)
    THEN /\ served(gltfCache, resolvePublicPath(path)) = Null
         /\ isKittyAsset(path) =>
                served(objCache, resolvePublicPath(replaceExtension(path, <<".", "obj">>))) = Null
    ELSE IF isOBJ(path)
         THEN served(objCache, resolvePublicPath(path)) = Null
         ELSE served(gltfCache, resolvePublicPath(path)) = Null

\* A decode of the given format, applicable to the path, has succeeded.
decodedAs(path, from) ==
    \/ /\ from = "gltf"
       /\ ~(~isGLTF(path) /\ isOBJ(path))
       /\ served(gltfCache, resolvePublicPath(path)).tag = "gltf"
    \/ /\ from = "obj"
       /\ LET objPath == IF isGLTF(path) THEN replaceExtension(path, <<".", "obj">>) ELSE path
          IN served(objCache, resolvePublicPath(objPath)).tag = "obj"

----------------------------------------------------------------------------
(* C2 *)

\* C2: the promise returned by instantiateModel never rejects, whatever the
\* loaders report and whatever the fallback factory does.
C2_NeverRejects ==
    \A c \in Calls : isModelCall(c) => calls[c].pc # "rejected"

----------------------------------------------------------------------------
(* C3 *)

----------------------------------------------------------------------------
(* C4 *)

\* C4: the fallback factory has been invoked once for a call exactly when
\* the call has ended with all its applicable decodes failed, never before
\* they have settled, never twice, and never for a call whose decode
\* succeeded.
C4_FactoryOncePerFailedCall ==
    \A c \in Calls :
        isModelCall(c) =>
            /\ calls[c].factoryCalls = IF hasSettled(c) /\ allDecodesFailed(calls[c].path)
                                       THEN 1 ELSE 0
            /\ (calls[c].pc = "resolved" /\ ~calls[c].result.fromFallback)
                   => calls[c].factoryCalls = 0

\* Two concurrent calls for one failed path: the factory ran once for each.
C4_Witness ==
    /\ calls[1].path = HutGlb /\ calls[2].path = HutGlb
    /\ calls[2].found = "pending"
    /\ hasSettled(1) /\ hasSettled(2)
    /\ calls[1].factoryCalls = 1 /\ calls[2].factoryCalls = 1

----------------------------------------------------------------------------
(* C5 *)

Kinds == {"gltf", "obj", "mtl", "audio", "texture"}

\* In one step: a cache entry stays the same promise, a settled promise
\* keeps its value, and no loader call is started for a settled key.
EntriesKept ==
    \A kind \in Kinds : \A key \in DOMAIN cacheOf(Heap, kind) :
        LET id == cacheOf(Heap, kind)[key]
        IN /\ key \in DOMAIN cacheOf(Heap, kind)'
           /\ cacheOf(Heap, kind)'[key] = id
           /\ isSettled(promise, id) =>
                 /\ promise'[id] = promise[id]
                 /\ Count(loaderCalls', <<kind, key>>) = Count(loaderCalls, <<kind, key>>)

\* A request that found its entry settled reports that settled outcome.
SettledOutcomeServed ==
    \A c \in Calls :
        (hasSettled(c) /\ calls[c].found = "settled") =>
            IF isAudioCall(c)
            THEN (calls[c].result.kind = "null") <=> (served(audioCache, keyOf(c)) = Null)
            ELSE (outcome(c) = <<"failed", <<>>>>) <=> allDecodesFailed(calls[c].path)

\* C5: once a load has settled, a later request for the path starts no new
\* loader call and observes the settled outcome; a path is fetched at most
\* once, and a cache entry is never removed or replaced.
C5_NoRetryNoEviction ==
    /\ [](SettledOutcomeServed /\ \A k \in DOMAIN loaderCalls : loaderCalls[k] = 1)
    /\ [][EntriesKept]_vars

\* A second audio request, made after the first load had failed, resolved to
\* null with still one loader call for the path.
C5_Witness ==
    /\ isAudioCall(1) /\ isAudioCall(2) /\ keyOf(1) = keyOf(2)
    /\ calls[2].found = "settled" /\ calls[2].pc = "resolved"
    /\ calls[2].result.kind = "null"
    /\ Count(loaderCalls, <<"audio", keyOf(2)>>) = 1

----------------------------------------------------------------------------
(* C6 *)

\* C6: given that every loader request ends with one of its callbacks, every
\* instantiateModel call and every loadAudioBuffer call eventually resolves.
C6_EventuallyResolves ==
    \A c \in Calls : (calls[c].pc # "idle") ~> (calls[c].pc = "resolved")

\* Every issued call eventually settles (resolves or rejects): no await of
\* the chain is left hanging.
EventuallySettles ==
    \A c \in Calls : (calls[c].pc # "idle") ~> hasSettled(c)

----------------------------------------------------------------------------
(* C7 *)

\* C7: the promise of loadAudioBuffer never rejects; the audio loader is
\* started once for the path; a reported failure logs exactly one warning
\* naming the resolved path and the call resolves to null; a buffer is
\* delivered only when the loader delivered one.
C7_AudioFailureIsNull ==
    \A c \in Calls :
        isAudioCall(c) =>
            LET buffer == served(audioCache, keyOf(c))
            IN /\ calls[c].pc # "rejected"
               /\ Count(loaderCalls, <<"audio", keyOf(c)>>) = 1
               /\ buffer.tag \in {"pending", "null", "audio"}
               /\ Count(console, <<"Audio missing or failed", keyOf(c)>>)
                      = IF buffer = Null THEN 1 ELSE 0
               /\ calls[c].pc = "resolved" =>
                      calls[c].result.kind = IF buffer = Null THEN "null" ELSE "AudioBuffer"

\* A first audio request whose load failed: resolved to null, one warning.
C7_Witness ==
    /\ isAudioCall(1) /\ calls[1].found = "miss" /\ calls[1].pc = "resolved"
    /\ calls[1].result.kind = "null"
    /\ Count(console, <<"Audio missing or failed", keyOf(1)>>) = 1

----------------------------------------------------------------------------
(* C8 *)

HutObjKey == <<"/", "assets", "/", "models", "/", "hut", ".", "obj">>

\* C8: a request for a container-model path other than kitty never awaits a
\* legacy-mesh decode, never returns a legacy-mesh node, and ends in the
\* fallback when its container decode has failed; the legacy-mesh decoder is
\* only ever started for a requested .obj path or for kitty's .obj after
\* kitty's container failure; a request for an .obj path never awaits or
\* returns a container decode and ends in the fallback when its legacy-mesh
\* decode has failed.
C8_NoCrossFormatFallback ==
    /\ \A c \in Calls :
          (isModelCall(c) /\ calls[c].path \in {HutGlb, Prop}) =>
              /\ calls[c].pc \notin {"loadOBJ", "loadOBJFallback"}
              /\ calls[c].result.root.from # "obj"
              /\ (hasSettled(c) /\ served(gltfCache, keyOf(c)) = Null) =>
                     /\ calls[c].factoryCalls = 1
                     /\ outcome(c) = <<"failed", <<>>>>
    /\ \A c \in Calls :
          (isModelCall(c) /\ calls[c].path \in {HutObj, KittyObj}) =>
              /\ calls[c].pc \notin {"loadGLTF", "loadGLTFDefault", "loadOBJFallback"}
              /\ calls[c].result.root.from # "gltf"
              /\ ~has(gltfCache, keyOf(c))
              /\ (hasSettled(c) /\ served(objCache, keyOf(c)) = Null) =>
                     /\ calls[c].factoryCalls = 1
                     /\ outcome(c) = <<"failed", <<>>>>
    /\ \A key \in DOMAIN objCache :
          \/ \E c \in Calls : calls[c].path \in {HutObj, KittyObj} /\ keyOf(c) = key
          \/ /\ key = KittyObjKey
             /\ \E c \in Calls : calls[c].path \in {KittyGlb, KittyGlbRel}
                                  /\ served(gltfCache, keyOf(c)) = Null

\* A hut container request whose decode failed ended in the fallback with
\* no legacy-mesh entry created.
C8_Witness ==
    /\ calls[1].path = HutGlb /\ calls[1].pc = "resolved"
    /\ served(gltfCache, keyOf(1)) = Null
    /\ calls[1].result.fromFallback
    /\ objCache = <<>>

----------------------------------------------------------------------------
(* C9 *)

\* C9: a kitty container request awaits the legacy-mesh decode only at
\* kitty's path with the extension replaced by .obj and only after the
\* container decode has failed; a legacy-mesh node it returns comes with
\* fromFallback = FALSE, no clips and the fix-up applied (ground offset and
\* kitty's yaw offset); its fallback factory runs exactly when both decodes
\* have failed.
C9_KittySecondaryChain ==
    \A c \in Calls :
        (isModelCall(c) /\ calls[c].path \in {KittyGlb, KittyGlbRel}) =>
            LET r == calls[c].result
                gltf == served(gltfCache, keyOf(c))
                obj == served(objCache, KittyObjKey)
            IN /\ calls[c].pc = "loadOBJFallback" =>
                      /\ gltf = Null
                      /\ has(objCache, KittyObjKey)
                      /\ calls[c].awaiting = objCache[KittyObjKey]
               /\ r.root.from = "obj" =>
                      /\ gltf = Null /\ obj.tag = "obj"
                      /\ ~r.fromFallback
                      /\ r.clips = <<>>
                      /\ r.root.groundOffset /\ r.root.visualYawOffset
               /\ hasSettled(c) =>
                      (calls[c].factoryCalls = IF gltf = Null /\ obj = Null THEN 1 ELSE 0)
               /\ ~hasSettled(c) => calls[c].factoryCalls = 0

\* The kitty container decode failed and the request returned kitty.obj.
C9_Witness ==
    /\ calls[1].path = KittyGlb /\ calls[1].pc = "resolved"
    /\ served(gltfCache, keyOf(1)) = Null
    /\ calls[1].result.root.from = "obj"
    /\ ~calls[1].result.fromFallback

----------------------------------------------------------------------------
(* C10 *)

\* C10: when the OBJLoader delivers a node without any mesh, the cached
\* outcome of that path is failure and exactly one "no meshes" warning is
\* logged for it; a request served by that decode takes the fallback branch
\* and never returns the legacy-mesh node.
C10_EmptyOBJIsFailure ==
    /\ \A id \in DOMAIN objTask :
          objTask[id].parsed = "nomesh" =>
              /\ promise[id] = Null
              /\ objCache[id[2]] = id
              /\ Count(console, <<"OBJ has no meshes", id[2]>>) = 1
              /\ Count(console, <<"Model missing or failed", id[2]>>) = 0
    /\ \A c \in Calls :
          (/\ isModelCall(c) /\ hasSettled(c)
           /\ calls[c].path \in {HutObj, KittyObj}
           /\ objTask[objCache[keyOf(c)]].parsed = "nomesh") =>
              /\ calls[c].factoryCalls = 1
              /\ calls[c].result.root.from # "obj"
              /\ calls[c].pc = "resolved" => calls[c].result.fromFallback

\* hut.obj loaded with no mesh in it and the request got the placeholder.
C10_Witness ==
    /\ calls[1].path = HutObj /\ calls[1].pc = "resolved"
    /\ objTask[objCache[HutObjKey]].parsed = "nomesh"
    /\ calls[1].result.fromFallback
    /\ Count(console, <<"OBJ has no meshes", HutObjKey>>) = 1

----------------------------------------------------------------------------
(* C11 *)

\* C11: in every result with fromFallback = FALSE, every material of every
\* drawable surface of the returned graph, single or element of a material
\* array, is a Lambert material with flat shading on, whichever decoder and
\* shading model it came from.
C11_SanitizedToFlatLambert ==
    \A c \in Calls :
        (isModelCall(c) /\ calls[c].pc = "resolved" /\ ~calls[c].result.fromFallback) =>
            /\ calls[c].result.root.sanitized
            /\ \A m \in materialsOf(calls[c].result.root) :
                  /\ m \in DOMAIN material
                  /\ material[m].type = "lambert"
                  /\ material[m].flatShading

\* A legacy-mesh result whose surface carried an array of two Phong
\* materials, after a container result with a physically-based material.
C11_Witness ==
    /\ calls[1].pc = "resolved" /\ calls[1].result.root.from = "gltf"
    /\ calls[1].result.root.meshes # <<>>
    /\ calls[2].pc = "resolved" /\ calls[2].result.root.from = "obj"
    /\ calls[2].result.root.meshes # <<>>
    /\ calls[2].result.root.meshes[1].isArray
    /\ Len(calls[2].result.root.meshes[1].material) = 2

----------------------------------------------------------------------------
(* C12 *)

\* The node objects held by the caches (the decoded assets).
cachedNodes == {promise[p].scene.id : p \in {q \in DOMAIN promise : promise[q].scene # NoNode}}

\* C12: the root returned by a successful call is a new object: it is not a
\* node held by a cache and not the root returned by any other call, also
\* when the call found the entry settled or in flight.
C12_FreshNodePerCall ==
    \A c \in Calls :
        (isModelCall(c) /\ calls[c].pc = "resolved" /\ ~calls[c].result.fromFallback) =>
            /\ calls[c].result.root.id \notin cachedNodes
            /\ \A d \in Calls \ {c} :
                  calls[d].pc = "resolved" => calls[d].result.root.id # calls[c].result.root.id

\* Two successful calls for one path, the second made while the first
\* decode was in flight.
C12_Witness ==
    /\ calls[1].path = HutObj /\ calls[2].path = HutObj
    /\ calls[2].found = "pending"
    /\ calls[1].pc = "resolved" /\ ~calls[1].result.fromFallback
    /\ calls[2].pc = "resolved" /\ ~calls[2].result.fromFallback
    /\ Count(loaderCalls, <<"obj", keyOf(1)>>) = 1

----------------------------------------------------------------------------
(* C13 *)

\* The awaits of Game.transitionToClub, in the order the method reaches them
transitionOrder ==
    {<<"idle", "fadeOut">>, <<"fadeOut", "change">>, <<"change", "fadeIn.wait20">>,
     <<"change", "rejected">>, <<"fadeIn.wait20", "fadeIn.wait">>,
     <<"fadeIn.wait", "done">>}

\* C13: the transition to the club runs fade-out, state change, fade-in in
\* that order.  The step that makes the club the current state is the one
\* that resumes from the fade-out's wait, with the overlay's opacity at "1";
\* the fade-in starts in a step at whose end ClubScene.enter() has completed;
\* the in-transition flag is cleared by the step that resumes from the
\* fade-in's last wait, with the opacity back at "0"; and the method never
\* passes its awaits in another order.
C13_FadeThenChangeThenFade ==
    [][/\ game'.transitionToClub # game.transitionToClub =>
             <<game.transitionToClub, game'.transitionToClub>> \in transitionOrder
       /\ (currentKey' = STATE_CLUB /\ currentKey # STATE_CLUB) =>
             /\ game.transitionToClub = "fadeOut"
             /\ game.inTransition
             /\ ui.fade = "1"
       /\ (game'.transitionToClub = "fadeIn.wait20" /\ game.transitionToClub # "fadeIn.wait20") =>
             /\ currentKey' = STATE_CLUB
             /\ club'.enter = "done"
             /\ club'.initialized
             /\ ui'.fade = "1"
       /\ (game.inTransition /\ ~game'.inTransition) =>
             /\ game.transitionToClub = "fadeIn.wait"
             /\ game'.transitionToClub = "done"
             /\ ui.fade = "0"
      ]_vars

\* The dialogue was finished and the transition has run to its end.
C13_Witness ==
    /\ hist.finished > 0
    /\ game.transitionToClub = "done"
    /\ currentKey = STATE_CLUB
    /\ ~game.inTransition
    /\ ui.fade = "0"

----------------------------------------------------------------------------
(* C14 *)

\* C14: no music track, of the world or of the club, is playing unless the
\* player has before pressed E, Space or Enter or clicked (the inputs of the
\* dialogue flow).
C14_MusicOnlyAfterDialogueInput ==
    (world.isPlaying \/ club.isPlaying) => hist.flowInput

----------------------------------------------------------------------------
(* C15 *)

started == game.start = "done" /\ currentKey = STATE_WORLD /\ game.running
inClub == game.transitionToClub = "done" /\ currentKey = STATE_CLUB /\ ~game.inTransition

\* A slot is filled when its instantiateModel call gave it a root: the
\* decoded model, or the placeholder where the file was missing.
filled(slots, names) == \A slot \in names : slots[slot] \in {"model", "placeholder"}

\* C15: whatever model and audio files fail to load, Game.start() eventually
\* completes with the world active and the frame loop running; once the
\* dialogue has finished the transition eventually completes with the club
\* active; and every model slot of an entered scene is filled.
C15_StillWorksWithoutFiles ==
    /\ <>started
    /\ (hist.finished > 0) ~> inClub
    /\ [](world.enter = "done" => filled(world.slots, WorldSlots))
    /\ [](club.enter = "done" => filled(club.slots, ClubSlots))

\* Both async methods of Game come to an end, completed or rejected.
GameEventuallySettles ==
    /\ <>(game.start \in {"done", "rejected"})
    /\ (hist.finished > 0) ~> (game.transitionToClub \in {"done", "rejected"})

----------------------------------------------------------------------------
(* C16 *)

\* C16: a dialogue starts only in a frame of the running world in which the
\* scene was not in dialogue, the player (after that frame's movement) is
\* within range of the NPC and an E press is there to be consumed; the frame
\* leaves the scene in dialogue at index 0 with line 0 shown and the hint
\* hidden.  In particular a frame with E pressed out of range, or with E
\* pressed during a dialogue, starts nothing.
C16_TalkOnlyInRange ==
    [][(hist'.dialogues # hist.dialogues \/ (world'.inDialogue /\ ~world.inDialogue)) =>
          /\ game.running /\ currentKey = STATE_WORLD
          /\ ~world.inDialogue
          /\ world'.near
          /\ "KeyE" \in input.pressed
          /\ "KeyE" \notin input'.pressed
          /\ hist'.dialogues = hist.dialogues + 1
          /\ world'.inDialogue
          /\ world'.dialogueIndex = 0
          /\ ui'.dialog /\ ui'.line = at(DIALOGUE, 0)
          /\ ~ui'.hint
      ]_vars

\* A dialogue has just been started.
C16_Witness ==
    /\ hist.dialogues > 0
    /\ world.inDialogue /\ world.dialogueIndex = 0 /\ world.near
    /\ ui.dialog /\ ui.line = at(DIALOGUE, 0) /\ ~ui.hint

----------------------------------------------------------------------------
(* C17 *)

\* C17: a running dialogue shows line dialogueIndex, an index of DIALOGUE;
\* the index moves only by a start (to 0) or by one frame's consumed advance
\* input, by exactly one however many advance inputs the frame holds; an
\* advance short of the end shows the next line; the advance that reaches
\* the number of lines hides the box, leaves the dialogue and invokes
\* onDialogueFinished once, and nothing else ends a dialogue or invokes
\* onDialogueFinished.
C17_DialogueProgression ==
    /\ [](/\ world.inDialogue => world.dialogueIndex \in 0..(Len(DIALOGUE) - 1)
          /\ (world.inDialogue /\ currentKey = STATE_WORLD) =>
                ui.dialog /\ ui.line = at(DIALOGUE, world.dialogueIndex)
          /\ ui.dialog => \E i \in 0..(Len(DIALOGUE) - 1) : ui.line = at(DIALOGUE, i)
          /\ hist.finished = hist.dialogues - (IF world.inDialogue THEN 1 ELSE 0))
    /\ [][/\ (world'.dialogueIndex # world.dialogueIndex /\ hist'.dialogues = hist.dialogues) =>
                /\ world.inDialogue /\ game.running /\ currentKey = STATE_WORLD
                /\ canConsumeDialogueAdvance(Objects)
                /\ world'.dialogueIndex = world.dialogueIndex + 1
          /\ (world'.dialogueIndex = world.dialogueIndex + 1
                 /\ world'.dialogueIndex < Len(DIALOGUE)) =>
                /\ world'.inDialogue
                /\ ui'.dialog /\ ui'.line = at(DIALOGUE, world'.dialogueIndex)
                /\ hist'.finished = hist.finished
          /\ (world'.dialogueIndex = world.dialogueIndex + 1
                 /\ world'.dialogueIndex = Len(DIALOGUE)) =>
                /\ ~world'.inDialogue
                /\ ~ui'.dialog
                /\ hist'.finished = hist.finished + 1
          /\ (hist'.finished # hist.finished \/ (world.inDialogue /\ ~world'.inDialogue)) =>
                /\ world.inDialogue /\ ~world'.inDialogue
                /\ world.dialogueIndex = Len(DIALOGUE) - 1
                /\ world'.dialogueIndex = Len(DIALOGUE)
                /\ hist'.finished = hist.finished + 1
         ]_vars

\* A dialogue has been advanced through all its lines and has just ended.
C17_Witness ==
    /\ hist.finished > 0
    /\ ~world.inDialogue
    /\ world.dialogueIndex = Len(DIALOGUE)
    /\ ~ui.dialog /\ ui.line = at(DIALOGUE, Len(DIALOGUE) - 1)

----------------------------------------------------------------------------
(* C18 *)

\* The decoded assets held by the caches, and their material objects
cachedScenes == {promise[p].scene : p \in {q \in DOMAIN promise : promise[q].scene # NoNode}}
cachedMaterials == UNION {materialsOf(scene) : scene \in cachedScenes}

isSuccess(c) == isModelCall(c) /\ calls[c].pc = "resolved" /\ ~calls[c].result.fromFallback

\* C18: what a cache holds stays as the decoder built it (a material keeps
\* its own map or none and its shading, its texture keeps its settings, the
\* node keeps its userData), and the materials of a returned graph belong to
\* that graph alone: none is a material of a cached asset or of the graph
\* returned by another call.
C18_CachedDecodeNeverMutated ==
    /\ \A scene \in cachedScenes :
          /\ ~scene.groundOffset /\ ~scene.visualYawOffset /\ ~scene.sanitized
          /\ \A m \in materialsOf(scene) :
                /\ material[m].type # "lambert"
                /\ ~material[m].flatShading
                /\ material[m].map \in {NoMap, textureOf(m)}
                /\ material[m].map # NoMap => ~texture[material[m].map].ps1
    /\ \A c \in Calls :
          isSuccess(c) =>
             /\ materialsOf(calls[c].result.root) \cap cachedMaterials = {}
             /\ \A d \in Calls \ {c} :
                   isSuccess(d) =>
                      materialsOf(calls[c].result.root)
                         \cap materialsOf(calls[d].result.root) = {}

----------------------------------------------------------------------------
(* C19 *)

\* C19: every result with fromFallback = FALSE has been through the fix-up
\* pass, whichever branch of loadModel decoded it: the pass ran for the call,
\* the ground offset of a graph with a drawable surface has been computed,
\* and a kitty asset carries its yaw tag.
C19_FixupOnEverySuccess ==
    \A c \in Calls :
        isSuccess(c) =>
            /\ calls[c].fixups = 1
            /\ calls[c].result.root.groundOffset = (calls[c].result.root.meshes # <<>>)
            /\ calls[c].result.root.visualYawOffset = isKittyAsset(calls[c].path)

----------------------------------------------------------------------------
(* C20 *)

sameKey(c, d) == isModelCall(c) /\ isModelCall(d) /\ keyOf(c) = keyOf(d)

\* C20 as stated: however many calls are made for one path, the fix-up pass
\* executes once for it.
C20_FixupOncePerDecode ==
    \A c \in Calls : \A d \in Calls \ {c} :
        sameKey(c, d) => calls[c].fixups + calls[d].fixups <= 1

\* C20 as the code has it: the decode of a path is requested from its loader
\* once, while the fix-up pass executes per call, on the call's own clone
\* and at most once for it: once for every successful call on a path with a
\* container or legacy-mesh extension, and never for a call that ends with a
\* fallback.
C20_FixupOncePerCall ==
    /\ \A e \in DOMAIN loaderCalls : loaderCalls[e] <= 1
    /\ \A c \in Calls :
          isModelCall(c) =>
             /\ calls[c].fixups <= 1
             /\ (isSuccess(c) /\ (isGLTF(calls[c].path) \/ isOBJ(calls[c].path))) =>
                   calls[c].fixups = 1
             /\ (calls[c].pc = "resolved" /\ calls[c].result.fromFallback) =>
                   calls[c].fixups = 0

\* Two successful calls for one path, answered by one decode, each with its
\* own run of the fix-up.
C20_Witness ==
    /\ sameKey(1, 2)
    /\ isSuccess(1) /\ isSuccess(2)
    /\ calls[1].fixups = 1 /\ calls[2].fixups = 1
    /\ calls[1].result.root.groundOffset /\ calls[2].result.root.groundOffset
    /\ Count(loaderCalls, <<firstKind(calls[1].path), keyOf(1)>>) = 1

----------------------------------------------------------------------------
(* C21 *)

isFallback(c) == isModelCall(c) /\ calls[c].pc = "resolved" /\ calls[c].result.fromFallback

\* C21: the root of a result with fromFallback = TRUE is the object the
\* factory built for that call, as the factory built it: no fix-up ran for
\* the call, no ground offset or yaw tag is written, the sanitizer has not
\* passed over it, and its materials are the factory's own objects with the
\* fields the factory gave them (no map injected).
C21_PlaceholderUntouched ==
    \A c \in Calls :
        isFallback(c) =>
            /\ calls[c].result.root = placeholderRoot(c)
            /\ calls[c].fixups = 0
            /\ calls[c].result.clips = <<>>
            /\ ~calls[c].result.root.groundOffset
            /\ ~calls[c].result.root.visualYawOffset
            /\ ~calls[c].result.root.sanitized
            /\ \A m \in materialsOf(calls[c].result.root) :
                  material[m] = Material("lambert", TRUE, NoMap)

\* A fallback result for a kitty path after both decoders failed, while the
\* shared fallback texture of the directory has loaded for another call.
C21_Witness ==
    /\ isFallback(2)
    /\ isKittyAsset(calls[2].path)
    /\ isSuccess(1)
    /\ \E t \in DOMAIN promise : t[1] = "texture" /\ promise[t].tag = "texture"

----------------------------------------------------------------------------
(* C22 *)

\* The cached asset a successful call's graph was cloned from
templateOf(c) ==
    IF calls[c].result.root.from = "gltf"
    THEN promise[gltfCache[keyOf(c)]].scene
    ELSE IF isOBJ(calls[c].path)
         THEN promise[objCache[keyOf(c)]].scene
         ELSE promise[objCache[resolvePublicPath(
                  replaceExtension(calls[c].path, <<".", "obj">>))]].scene

\* The probe of the shared fallback texture in the directory of call c's path
fallbackTextureOf(c) == textureCache[resolvePublicPath(fallbackDiffusePath(calls[c].path))]

\* A material carries a texture of its own when the decoder built one for it.
ownTexture(m) == IF textureOf(m) \in DOMAIN texture THEN textureOf(m) ELSE NoMap

\* C22: in the result of a call for which the fix-up ran, the sanitized
\* material of every slot carries the texture the decoder gave the slot's
\* material when it gave one; otherwise the directory's fallback texture when
\* its probe loaded, and no texture when the probe failed.
C22_FallbackTextureInjection ==
    \A c \in Calls :
        (isSuccess(c) /\ calls[c].fixups = 1) =>
            /\ DOMAIN calls[c].result.root.meshes = DOMAIN templateOf(c).meshes
            /\ \A sl \in Slots(calls[c].result.root.meshes) :
                  LET source == templateOf(c).meshes[sl[1]].material[sl[2]]
                      lambert == calls[c].result.root.meshes[sl[1]].material[sl[2]]
                      probe == promise[fallbackTextureOf(c)]
                  IN material[lambert].map =
                        IF ownTexture(source) # NoMap THEN ownTexture(source)
                        ELSE IF probe.tag = "texture" THEN fallbackTextureOf(c)
                        ELSE NoMap

\* A result with a material array of which one element kept its own texture
\* and the other received the fallback texture.
C22_Witness ==
    \E c \in Calls :
        /\ isSuccess(c) /\ calls[c].fixups = 1
        /\ promise[fallbackTextureOf(c)].tag = "texture"
        /\ \E s1 \in Slots(calls[c].result.root.meshes) :
           \E s2 \in Slots(calls[c].result.root.meshes) :
              /\ ownTexture(templateOf(c).meshes[s1[1]].material[s1[2]]) # NoMap
              /\ material[calls[c].result.root.meshes[s1[1]].material[s1[2]]].map
                    = ownTexture(templateOf(c).meshes[s1[1]].material[s1[2]])
              /\ ownTexture(templateOf(c).meshes[s2[1]].material[s2[2]]) = NoMap
              /\ material[calls[c].result.root.meshes[s2[1]].material[s2[2]]].map
                    = fallbackTextureOf(c)

\* A result whose fallback-texture probe failed: an untextured slot stays so.
C22_WitnessProbeFailed ==
    \E c \in Calls :
        /\ isSuccess(c) /\ calls[c].fixups = 1
        /\ promise[fallbackTextureOf(c)].tag = "null"
        /\ \E sl \in Slots(calls[c].result.root.meshes) :
              material[calls[c].result.root.meshes[sl[1]].material[sl[2]]].map = NoMap

----------------------------------------------------------------------------
(* C23 *)

\* C23: the node of a successful result carries the yaw tag exactly when the
\* requested logical path matches /\/kitty\.(glb|gltf|obj)$/, whichever
\* decoder served it, and the loader has left the node's rotation at zero.
C23_YawTagIffKitty ==
    \A c \in Calls :
        isSuccess(c) =>
            /\ calls[c].result.root.visualYawOffset = isKittyAsset(calls[c].path)
            /\ calls[c].result.root.rotationY = 0

\* A kitty request served by the legacy-mesh decoder is tagged while a hut
\* request served next to it is not.
C23_Witness ==
    /\ isSuccess(1) /\ calls[1].path = KittyGlb
    /\ calls[1].result.root.from = "obj"
    /\ calls[1].result.root.visualYawOffset
    /\ isSuccess(2) /\ ~isKittyAsset(calls[2].path)
    /\ calls[2].fixups = 1
    /\ ~calls[2].result.root.visualYawOffset

----------------------------------------------------------------------------
(* C24 *)

\* The two companion material files of a legacy mesh, by resolved path.
namedMtl(objPath) ==
    resolvePublicPath(getDirectory(objPath) \o getBaseNameWithoutExtension(objPath)
                      \o <<".", "mtl">>)
sharedMtl(objPath) == resolvePublicPath(getDirectory(objPath) \o <<"material", ".", "mtl">>)

probed(key) == Count(loaderCalls, <<"mtl", key>>) > 0
probeOf(key) == promise[mtlCache[key]].tag

\* C24: for every legacy-mesh decode, <dir>/<basename>.mtl is probed from the
\* start; <dir>/material.mtl is asked for only after the first probe failed;
\* the OBJLoader request is started only after the probing has finished (the
\* first candidate loaded, or the first failed and the second settled); and
\* the library set on the OBJLoader is that of the first candidate that loaded.
C24_CompanionProbeOrder ==
    \A id \in DOMAIN objTask :
        LET task == objTask[id]
            named == namedMtl(task.path)
            shared == sharedMtl(task.path)
            loadStarted == Count(loaderCalls, <<"obj", id[2]>>) > 0
        IN /\ probed(named)
           /\ task.candidate \in {1, 2}
           /\ task.candidate = 2 => probeOf(named) = "null" /\ probed(shared)
           /\ task.pc = "mtl" => task.awaiting = mtlCache[IF task.candidate = 1 THEN named ELSE shared]
           /\ probed(shared) =>
                 \E other \in DOMAIN objTask :
                    /\ sharedMtl(objTask[other].path) = shared
                    /\ probeOf(namedMtl(objTask[other].path)) = "null"
           /\ loadStarted <=> task.pc # "mtl"
           /\ loadStarted =>
                 /\ Count(loaderCalls, <<"obj", id[2]>>) = 1
                 /\ \/ probeOf(named) = "mtl" /\ task.candidate = 1
                    \/ /\ probeOf(named) = "null" /\ task.candidate = 2
                       /\ probeOf(shared) \in {"mtl", "null"}
                 /\ task.materials = (probeOf(named) = "mtl" \/ probeOf(shared) = "mtl")

\* A decode whose first candidate failed and whose second one loaded and was
\* applied, the mesh request having been started.
C24_Witness ==
    \E id \in DOMAIN objTask :
        /\ probeOf(namedMtl(objTask[id].path)) = "null"
        /\ probed(sharedMtl(objTask[id].path))
        /\ probeOf(sharedMtl(objTask[id].path)) = "mtl"
        /\ objTask[id].materials
        /\ Count(loaderCalls, <<"obj", id[2]>>) = 1

----------------------------------------------------------------------------
(* C25 *)

\* A legacy-mesh decode that delivered a mesh although both of its companion
\* material probes had failed.
meshWithoutMaterials(id) ==
    /\ objTask[id].pc = "done" /\ objTask[id].parsed = "mesh"
    /\ probeOf(namedMtl(objTask[id].path)) = "null"
    /\ probeOf(sharedMtl(objTask[id].path)) = "null"

\* Call c has been answered from the legacy-mesh decode id: it asked for that
\* mesh, or for the kitty container whose decode failed.
answeredFrom(c, id) ==
    /\ isModelCall(c) /\ calls[c].pc = "resolved"
    /\ \/ isOBJ(calls[c].path) /\ keyOf(c) = id[2]
       \/ /\ isGLTF(calls[c].path) /\ isKittyAsset(calls[c].path)
          /\ promise[gltfCache[keyOf(c)]].tag = "null"
          /\ resolvePublicPath(replaceExtension(calls[c].path, <<".", "obj">>)) = id[2]

\* C25: a legacy mesh that decodes with both companion material candidates
\* failed still resolves its decode, with the OBJLoader's default (Phong,
\* own-texture-less) materials; every call answered from it gets a result
\* with fromFallback false whose materials the sanitizer has made
\* flat-shaded Lambert ones.
C25_MissingMaterialNeverFailsMesh ==
    \A id \in DOMAIN objTask :
        meshWithoutMaterials(id) =>
            /\ ~objTask[id].materials
            /\ promise[id].tag = "obj"
            /\ promise[id].scene.meshes # <<>>
            /\ \A m \in materialsOf(promise[id].scene) :
                  material[m].type = "phong" /\ ownTexture(m) = NoMap
            /\ \A c \in Calls :
                  answeredFrom(c, id) =>
                     /\ calls[c].result.kind = "ModelInstance"
                     /\ ~calls[c].result.fromFallback
                     /\ calls[c].result.root.from = "obj"
                     /\ calls[c].result.root.sanitized
                     /\ calls[c].result.root.meshes # <<>>
                     /\ \A m \in materialsOf(calls[c].result.root) :
                           material[m].type = "lambert" /\ material[m].flatShading

\* Two calls answered from one material-less mesh decode, one of them the
\* kitty container request.
C25_Witness ==
    \E id \in DOMAIN objTask :
        /\ meshWithoutMaterials(id)
        /\ answeredFrom(1, id) /\ answeredFrom(2, id)
        /\ isGLTF(calls[1].path)
        /\ ~calls[1].result.fromFallback /\ ~calls[2].result.fromFallback

----------------------------------------------------------------------------
(* C26 *)

\* s without the separators at its end.
RECURSIVE withoutTrailingSeparators(_)
withoutTrailingSeparators(s) ==
    IF s # <<>> /\ s[Len(s)] = "/"
    THEN withoutTrailingSeparators(SubSeq(s, 1, Len(s) - 1))
    ELSE s

\* A path with a scheme name, whatever its characters, and "://", or with a
\* leading "//".
hasAnyScheme(path) ==
    \/ startsWith(path, <<"/", "/">>)
    \/ /\ Len(path) >= 4
       /\ path[1] \notin {"/", ".", ":"}
       /\ SubSeq(path, 2, 4) = <<":", "/", "/">>

withoutLeadingSeparator(path) == IF startsWith(path, <<"/">>) THEN Tail(path) ELSE path

returned == eval.op = "resolvePublicPath" /\ eval.pc = "returned"

----------------------------------------------------------------------------
(* C27 *)

\* The lowest y of the geometry a successful call's graph was cloned with.
decodedMinY(c) == boxMinY(templateOf(c))

\* C27: the node of every successful result whose bounding box has a finite
\* minimum y carries a ground offset equal to the negation of that minimum
\* (4 tenths for a lowest vertex at -4 tenths, nothing positive for a node
\* above y = 0), and a node with an empty box reads as offset zero.
C27_GroundOffset ==
    \A c \in Calls :
        isSuccess(c) =>
            LET root == calls[c].result.root
            IN IF isFinite(decodedMinY(c))
               THEN /\ root.groundOffset
                    /\ root.groundOffsetY = -decodedMinY(c)
                    /\ getGroundLift(root, 1) = -decodedMinY(c)
                    /\ decodedMinY(c) = -4 => root.groundOffsetY = 4
                    /\ decodedMinY(c) >= 0 => root.groundOffsetY <= 0
               ELSE getGroundLift(root, 1) = 0

\* The same for the results whose path has a recognised extension.
C27_GroundOffsetWhereFixed ==
    \A c \in Calls :
        (isSuccess(c) /\ calls[c].fixups = 1) =>
            LET root == calls[c].result.root
            IN IF isFinite(decodedMinY(c))
               THEN /\ root.groundOffset
                    /\ root.groundOffsetY = -decodedMinY(c)
                    /\ getGroundLift(root, 1) = -decodedMinY(c)
                    /\ decodedMinY(c) = -4 => root.groundOffsetY = 4
                    /\ decodedMinY(c) >= 0 => root.groundOffsetY <= 0
               ELSE ~root.groundOffset /\ getGroundLift(root, 1) = 0

\* Results with the lowest vertex below, at and above y = 0, and one with an
\* empty box.
C27_WitnessBelow == \E c \in Calls : isSuccess(c) /\ calls[c].fixups = 1 /\ decodedMinY(c) = -4
C27_WitnessAbove == \E c \in Calls : isSuccess(c) /\ calls[c].fixups = 1 /\ decodedMinY(c) = 3
C27_WitnessEmpty ==
    \E c \in Calls : isSuccess(c) /\ calls[c].fixups = 1 /\ ~isFinite(decodedMinY(c))

----------------------------------------------------------------------------
(* C28 *)

sanitized == eval.op = "toLambertMaterial" /\ eval.pc = "returned"

\* The value of an optional field, or the default when the source lacks it.
orDefault(field, default) == IF field = <<>> THEN default ELSE field[1]

\* C28: toLambertMaterial returns a Lambert source itself, changed only in
\* that it is flat-shaded and marked for re-upload; for any other source it
\* returns a new flat-shaded Lambert material, leaves the source as it was,
\* and the new material's color, emissive color, transparency flag, opacity,
\* alpha-test threshold, side, vertex-color flag, texture, skinning flag and
\* morph flags are the source's, or white / opaque / 0 (and not transparent,
\* front side, no vertex colors, black emissive, flags off) where the source
\* lacks the field.
C28_SanitizerPreservation ==
    sanitized =>
        LET source == eval.source
            out == material[eval.result]
        IN IF source.type = "lambert"
           THEN /\ eval.result = SourceMaterial
                /\ DOMAIN material = {SourceMaterial}
                /\ out = [source EXCEPT !.flatShading = TRUE, !.needsUpdate = TRUE]
           ELSE /\ eval.result # SourceMaterial
                /\ material[SourceMaterial] = source
                /\ out.type = "lambert" /\ out.flatShading
                /\ out.map = source.map
                /\ out.props.color = <<orDefault(source.props.color, "white")>>
                /\ out.props.emissive = <<orDefault(source.props.emissive, "black")>>
                /\ out.props.transparent = <<orDefault(source.props.transparent, FALSE)>>
                /\ out.props.opacity = <<orDefault(source.props.opacity, 10)>>
                /\ out.props.alphaTest = <<orDefault(source.props.alphaTest, 0)>>
                /\ out.props.side = <<orDefault(source.props.side, "FrontSide")>>
                /\ out.props.vertexColors = <<orDefault(source.props.vertexColors, FALSE)>>
                /\ out.props.skinning = <<orDefault(source.props.skinning, FALSE)>>
                /\ out.props.morphTargets = <<orDefault(source.props.morphTargets, FALSE)>>
                /\ out.props.morphNormals = <<orDefault(source.props.morphNormals, FALSE)>>

\* A textured, red, half-transparent, skinned Phong source replaced by a
\* Lambert material with the same fields.
C28_Witness ==
    /\ sanitized
    /\ eval.source.type = "phong"
    /\ eval.source.map = SourceTexture
    /\ eval.source.props.color = <<"red">>
    /\ eval.source.props.opacity = <<5>>
    /\ eval.source.props.skinning = <<TRUE>>
    /\ eval.result # SourceMaterial
    /\ material[eval.result].props.color = <<"red">>
    /\ material[eval.result].props.opacity = <<5>>
    /\ material[eval.result].map = SourceTexture

\* A Lambert source kept as the same object.
C28_WitnessInPlace ==
    /\ sanitized
    /\ eval.source.type = "lambert" /\ eval.source.props.color = <<"red">>
    /\ eval.result = SourceMaterial
    /\ material[SourceMaterial].flatShading /\ material[SourceMaterial].needsUpdate

----------------------------------------------------------------------------
(* C29 *)

\* C29: whatever the dialogues finished, a dialogue restarted and finished
\* during the fade-out included, stateMachine.change(STATE_CLUB) is invoked
\* at most once, at most one invocation of transitionToClub gets past its
\* guard (so at most one transition is in progress), and once the current
\* state is the club it stays the club.
C29_SwitchAtMostOnce ==
    [][/\ hist'.changes <= 1
       /\ hist'.transitions <= 1
       /\ hist'.changes <= hist'.transitions
       /\ (game'.inTransition => hist'.transitions = 1)
       /\ (currentKey = STATE_CLUB => currentKey' = STATE_CLUB)
       /\ (currentKey' = STATE_CLUB <=> hist'.changes = 1)]_vars

\* A second dialogue finished while the fade-out of the first was running,
\* and the club entered afterwards.
C29_Witness ==
    /\ hist.finished = 2
    /\ hist.transitions = 1 /\ hist.changes = 1
    /\ currentKey = STATE_CLUB /\ club.enter = "done"

----------------------------------------------------------------------------
(* C30 *)

\* The scene update() and render() of a frame go to has completed its enter().
entered ==
    /\ currentKey = STATE_WORLD => world.enter = "done"
    /\ currentKey = STATE_CLUB => club.enter = "done"

\* C30: every frame of the loop finds the current scene entered: no
\* update() or render() reaches a scene whose enter() is still pending.
C30_FramesOnlyAfterEnter == [][Tick => entered]_vars

\* The same for the world scene alone.
C30_WorldFramesOnlyAfterEnter ==
    [][Tick => (currentKey = STATE_WORLD => world.enter = "done")]_vars

----------------------------------------------------------------------------
(* C31 *)

\* C31: the world track is not playing once WorldScene.exit() has run (the
\* club is the current state), and so never plays together with the club's.
C31_MusicOnlyInActiveScene ==
    /\ currentKey = STATE_CLUB => ~world.isPlaying
    /\ ~(world.isPlaying /\ club.isPlaying)

\* The same for the club's track before the club is entered.
C31_ClubSilentInWorld == currentKey # STATE_CLUB => ~club.isPlaying

----------------------------------------------------------------------------
(* C32 *)

\* C32: play() is invoked on a track only while it is not playing: a
\* suspended WorldScene.tryStartMusic whose context.resume() resolves calls
\* worldMusic.play() with the track stopped, and the club's track goes from
\* stopped to playing in the one step that calls its play().
C32_PlayOnlyWhenStopped ==
    [][/\ ResumeWorldTryStartMusic(TRUE) => ~world.isPlaying
       /\ ResumeClubTryStartMusic(TRUE) => (club.isPlaying' = (club.music # "null"))]_vars

\* The club's half: a resolved resume() of ClubScene.tryStartMusic leaves a
\* playing track as it is and starts a stopped one.
C32_ClubPlayOnlyWhenStopped ==
    [][ResumeClubTryStartMusic(TRUE) => (club.isPlaying' = (club.music # "null"))]_vars

----------------------------------------------------------------------------
(* C33 *)

isMachine == eval.op = "StateMachine"

\* The exit() and enter() calls a change() added to the log.
added == SubSeq(eval'.log, Len(eval.log) + 1, Len(eval'.log))

\* C33: a change() to a registered key other than the current one calls
\* exit() on the previous state once (when there is one) and then enter() on
\* the next state once, and nothing else, and current is the new key
\* afterwards; a change() to the current key calls nothing and leaves the
\* machine as it was.
C33_ChangeOrdering ==
    [][(isMachine /\ eval'.changes = eval.changes + 1) =>
          LET key == eval'.key
          IN /\ (key \in eval.states /\ key # eval.currentKey) =>
                   /\ added = (IF eval.currentKey # NoState
                               THEN <<<<"exit", eval.currentKey>>>> ELSE <<>>)
                              \o <<<<"enter", key>>>>
                   /\ SubSeq(eval'.log, 1, Len(eval.log)) = eval.log
                   /\ eval'.currentKey = key /\ eval'.currentState = key
                   /\ ~eval'.thrown
             /\ key = eval.currentKey =>
                   /\ eval'.log = eval.log
                   /\ eval'.currentKey = eval.currentKey
                   /\ eval'.currentState = eval.currentState
                   /\ eval'.states = eval.states
                   /\ ~eval'.thrown]_vars

\* A machine changed from one state to another and then asked for the state
\* it is in.
C33_Witness ==
    /\ isMachine /\ eval.changes = 3
    /\ eval.key = STATE_CLUB /\ eval.currentKey = STATE_CLUB
    /\ eval.log = << <<"enter", STATE_WORLD>>, <<"exit", STATE_WORLD>>,
                     <<"enter", STATE_CLUB>> >>

----------------------------------------------------------------------------
(* C34 *)

\* C34: a change() to a key that is not registered throws, calls neither
\* exit() nor enter(), and leaves the current key and state as they were.
C34_UnregisteredKeyThrows ==
    [][(isMachine /\ eval'.changes = eval.changes + 1 /\ eval'.key \notin eval.states) =>
          /\ eval'.thrown
          /\ eval'.log = eval.log
          /\ eval'.currentKey = eval.currentKey
          /\ eval'.currentState = eval.currentState
          /\ eval'.states = eval.states]_vars

\* A machine in a state, asked for a key nobody registered.
C34_Witness ==
    /\ isMachine /\ eval.thrown
    /\ eval.key \notin eval.states
    /\ eval.currentKey = STATE_WORLD
    /\ eval.log = << <<"enter", STATE_WORLD>> >>

----------------------------------------------------------------------------
(* C35 *)

\* C35: once Game.dispose() has been called no frame runs any more (no
\* update, render or endFrame, and no new frame is scheduled), also when
\* dispose() is called while start() still awaits the state entry or the
\* fade-in.
C35_NoFrameAfterDispose == [][Tick => ~hist.disposed]_vars

\* The same written on the states: a disposed game is not running.
C35_DisposedNotRunning == hist.disposed => ~game.running

\* What does hold: dispose() stops the frames of a game whose start() has
\* finished, and the listeners of Input stay removed.
C35_DisposeStopsRunningGame ==
    [][/\ (Dispose /\ game.start = "done") => ~game.running' /\ game'.start = "done"
       /\ (hist.disposed /\ game.start = "done" /\ ~game.running) => ~game.running'
       /\ hist.disposed => ~input.listening]_vars

====
